---- MODULE Spec2Model ----
(***************************************************************************)
(* Session attention classifier of orca (src-tauri/src/claude_logs.rs).    *)
(*                                                                         *)
(* JSON values are records; an optional value (Rust Option, or a JSON key  *)
(* that may be missing or of the wrong JSON type) is a sequence of length  *)
(* at most one: <<>> is None, <<x>> is Some(x).  A string field read with  *)
(* .and_then(as_str).unwrap_or("") is the string itself, "" when missing.  *)
(* Paths and directory names are sequences of one-character strings.       *)
(***************************************************************************)
EXTENDS Integers, Sequences, FiniteSets, TLC

VARIABLES
    lines,              \* extract_attention's `lines`: the parsed tail window
    agentdeck_status,   \* coarse status argument
    now,                \* SystemTime::now() in seconds since the epoch
    attention,          \* the AttentionStatus returned, "none" before a call
    pc,                 \* "start", "done" (returned) or "panic" (aborted)
    op,                 \* which operation ran: "none", "extract_attention",
                        \*   "compute_attention" or "get_session_summary"
    home,               \* dirs::home_dir() resolves
    rootReadable,       \* read_dir(~/.claude/projects) succeeds
    dirs,               \* directories under the root, in read_dir order
    pane,               \* what `tmux capture-pane` would give
    project_path,       \* argument
    claude_session_id,  \* argument, Option
    tmux_session,       \* argument, Option
    jsonl_path,         \* what find_jsonl_path returned, Option of a dir name
    pre,                \* the status handed to refine_with_tmux
    probed,             \* number of is_waiting_for_input invocations
    session_summary,    \* the other fields of the SessionSummary returned, Option
    result,             \* what an extract_* function returned, Option
    lines2,             \* a second tail, for comparing two classifications
    attention2,         \* the classification of lines2
    in_file,            \* the file handed to read_tail_lines / read_head_lines
    in_max_bytes,       \* their max_bytes argument
    sessions,           \* rows of the instances table, in query order
    idx,                \* number of candidate rows get_attention_counts has consumed
    candidates,         \* the rows its query selected
    classified,         \* the classification of each consumed candidate
    groups,             \* its local groups map
    total,              \* its local total
    prompts,            \* Orca's own table of prompts, by session id
    attention_sessions, \* what get_attention_sessions returned, Option
    attention_counts,   \* what get_attention_counts returned, Option
    calls,              \* the calls in progress side by side, each with its locals
    tail_reader,        \* a read_tail_lines call in progress: its locals
    pty                 \* the PTY manager: its sessions map and the calls into it

vars == <<lines, agentdeck_status, now, attention, pc, op, home, rootReadable,
          dirs, pane, project_path, claude_session_id, tmux_session,
          jsonl_path, pre, probed, session_summary, result, lines2, attention2,
          in_file, in_max_bytes, sessions, idx, candidates, classified, groups, total,
          prompts, attention_sessions, attention_counts, calls, tail_reader, pty>>

envVars == <<home, rootReadable, dirs, pane>>
callVars == <<project_path, claude_session_id, tmux_session, jsonl_path, pre, probed>>
pureVars == <<result, lines2, attention2, in_file, in_max_bytes>>
aggVars == <<sessions, idx, candidates, classified, groups, total>>
dashVars == <<prompts, attention_sessions, attention_counts>>
laterVars == <<dashVars, calls, tail_reader, pty>>

----------------------------------------------------------------------------
(* Bounds *)

MaxLines == 2

MaxDirs == 2

----------------------------------------------------------------------------
(* Program constants *)

STALE_SECS == 3600

TAIL_BYTES == 256 * 1024

InteractiveTools == {"AskUserQuestion", "ExitPlanMode", "EnterPlanMode"}

PROMPT_MARKER == "Do you want to proceed?"

AttentionStatus == {"NeedsInput", "Error", "Running", "Idle", "Stale", "Unknown"}

----------------------------------------------------------------------------
(* Inputs: content items, transcript entries, coarse statuses *)

CoarseStatuses == {"running", "waiting", "error", "idle", "paused"}

NowBase == 3 * STALE_SECS

\* a text is a sequence of characters (Unicode scalar values)
Text(t) == [type |-> "text", name |-> "", is_error |-> FALSE, text |-> t]

TextItem == Text(<<"h", "i">>)

ToolUse(n) == [type |-> "tool_use", name |-> n, is_error |-> FALSE, text |-> <<>>]

ToolResult(err) == [type |-> "tool_result", name |-> "", is_error |-> err, text |-> <<>>]

\* message.content: None (missing or not an array) or an array of items
Contents ==
    { <<>>,
      << <<TextItem>> >>,
      << <<TextItem, ToolUse("AskUserQuestion")>> >>,
      << <<ToolUse("ExitPlanMode")>> >>,
      << <<ToolUse("Bash"), ToolUse("EnterPlanMode")>> >>,
      << <<ToolUse("Bash")>> >>,
      << <<ToolResult(TRUE)>> >> }

\* an entry with a "message" object
Wrapped(t, r, c, ts) ==
    [type |-> t, message |-> << [role |-> r, content |-> c] >>,
     role |-> "", content |-> <<>>, timestamp |-> ts, summary |-> <<>>]

\* an entry without "message": role and content are read from the entry itself
Bare(t, r, c, ts) ==
    [type |-> t, message |-> <<>>, role |-> r, content |-> c, timestamp |-> ts,
     summary |-> <<>>]

\* an entry of type t with a "summary" key: s is None when it is not a string
WithSummary(t, s) ==
    [type |-> t, message |-> <<>>, role |-> "", content |-> <<>>, timestamp |-> <<>>,
     summary |-> s]

\* timestamps: missing or non-numeric, or NowBase - 3600
Timestamps == { <<>>, <<NowBase - STALE_SECS>> }

EntryShapes(ts) ==
    { Wrapped("assistant", "assistant", c, ts) : c \in Contents }
    \cup { Wrapped("user", "user", << <<TextItem>> >>, ts),
           Wrapped("user", "user", << <<ToolResult(TRUE)>> >>, ts),
           Wrapped("user", "assistant", << <<ToolUse("AskUserQuestion")>> >>, ts),
           Wrapped("assistant", "user", << <<ToolUse("AskUserQuestion")>> >>, ts),
           Wrapped("result", "assistant", << <<ToolUse("AskUserQuestion")>> >>, ts),
           Bare("assistant", "assistant", << <<ToolUse("ExitPlanMode")>> >>, ts),
           Bare("result", "", <<>>, ts),
           Bare("summary", "", <<>>, ts) }

Entries == UNION { EntryShapes(ts) : ts \in Timestamps }

SeqsUpTo(S, n) == UNION { [1..k -> S] : k \in 0..n }

Tails == SeqsUpTo(Entries, MaxLines)

----------------------------------------------------------------------------
(* extract_attention, claude_logs.rs:160-256 *)

\* line.get("message").unwrap_or(line)
Msg(entry) ==
    IF entry.message # <<>> THEN entry.message[1]
    ELSE [role |-> entry.role, content |-> entry.content]

IsRelevant(l) == l.type = "assistant" \/ l.type = "user"

Relevant_all(ls) == ls

RECURSIVE Relevant(_)
Relevant(ls) ==
    IF ls = <<>> THEN <<>>
    ELSE IF IsRelevant(Head(ls)) THEN <<Head(ls)>> \o Relevant(Tail(ls))
    ELSE Relevant(Tail(ls))

HasAssistant_byType(relevant) ==
    \E i \in 1..Len(relevant) : relevant[i].type = "assistant"

HasAssistant(relevant) ==
    \E i \in 1..Len(relevant) : Msg(relevant[i]).role = "assistant"

CoarseNoData_idle(status) ==
    CASE status = "running" -> "Running"
      [] status = "error" -> "Error"
      [] status = "idle" -> "Idle"
      [] OTHER -> "Unknown"

CoarseNoData(status) ==
    CASE status = "running" -> "Running"
      [] status = "error" -> "Error"
      [] OTHER -> "Unknown"

IsInteractiveToolUse_any(item) == item.type = "tool_use"

IsInteractiveToolUse_noEnter(item) ==
    item.type = "tool_use" /\ item.name \in {"AskUserQuestion", "ExitPlanMode"}

IsInteractiveToolUse(item) ==
    item.type = "tool_use" /\ item.name \in InteractiveTools

\* the loop over the content of the last relevant entry returns NeedsInput
AsksUser(last) ==
    LET msg == Msg(last) IN
    /\ msg.role = "assistant"
    /\ msg.content # <<>>
    /\ \E k \in 1..Len(msg.content[1]) : IsInteractiveToolUse(msg.content[1][k])

IsStale_anyEntry(ls, t) ==
    \E i \in 1..Len(ls) :
        ls[i].timestamp # <<>> /\ t - ls[i].timestamp[1] > STALE_SECS

IsStale_ge(ls, t) ==
    /\ ls # <<>>
    /\ ls[Len(ls)].timestamp # <<>>
    /\ t - ls[Len(ls)].timestamp[1] >= STALE_SECS

IsStale_lastRelevant(ls, t) ==
    LET r == Relevant(ls) IN
    /\ r # <<>>
    /\ r[Len(r)].timestamp # <<>>
    /\ t - r[Len(r)].timestamp[1] > STALE_SECS

IsStale(ls, t) ==
    /\ ls # <<>>
    /\ ls[Len(ls)].timestamp # <<>>
    /\ t - ls[Len(ls)].timestamp[1] > STALE_SECS

CoarseFallback_errorRuns(status) ==
    IF status = "running" \/ status = "error" THEN "Running" ELSE "Idle"

CoarseFallback(status) ==
    IF status = "running" THEN "Running"
    ELSE IF status = "error" THEN "Error"
    ELSE "Idle"

HasErrorResult(entry) ==
    LET msg == Msg(entry) IN
    /\ msg.content # <<>>
    /\ \E k \in 1..Len(msg.content[1]) :
          msg.content[1][k].type = "tool_result" /\ msg.content[1][k].is_error

extract_attention_isError(ls, status, t) ==
    LET relevant == Relevant(ls) IN
    IF status = "waiting" THEN
        (IF HasAssistant(relevant) THEN "NeedsInput" ELSE "Idle")
    ELSE IF relevant = <<>> THEN CoarseNoData(status)
    ELSE IF AsksUser(relevant[Len(relevant)]) THEN "NeedsInput"
    ELSE IF HasErrorResult(relevant[Len(relevant)]) THEN "Error"
    ELSE IF IsStale(ls, t) THEN "Stale"
    ELSE CoarseFallback(status)

extract_attention(ls, status, t) ==
    LET relevant == Relevant(ls) IN
    IF status = "waiting" THEN
        (IF HasAssistant(relevant) THEN "NeedsInput" ELSE "Idle")
    ELSE IF relevant = <<>> THEN CoarseNoData(status)
    ELSE IF AsksUser(relevant[Len(relevant)]) THEN "NeedsInput"
    ELSE IF IsStale(ls, t) THEN "Stale"
    ELSE CoarseFallback(status)

----------------------------------------------------------------------------
(* The transcripts root, claude_logs.rs:26-57 *)

\* project_path.replace('/', "-")
Encode(path) == [i \in 1..Len(path) |-> IF path[i] = "/" THEN "-" ELSE path[i]]

\* name.starts_with(&encoded)
StartsWith(name, prefix) ==
    /\ Len(prefix) <= Len(name)
    /\ \A i \in 1..Len(prefix) : name[i] = prefix[i]

\* <root>/<dirs[i].name>/<id>.jsonl exists
HasFile(i, id) == dirs[i].file # <<>> /\ dirs[i].file[1].id = id

PathOf(i, id) == << [dir |-> dirs[i].name, id |-> id] >>

\* the for loop over read_dir(&base): first entry in enumeration order whose
\* name starts with the encoded name and which holds the file
ScanRoot(encoded, id) ==
    LET hits == { i \in 1..Len(dirs) :
                    StartsWith(dirs[i].name, encoded) /\ HasFile(i, id) } IN
    IF hits = {} THEN <<>>
    ELSE PathOf(CHOOSE i \in hits : \A j \in hits : i <= j, id)

find_jsonl_path_scanFirst(path, id) ==
    LET encoded == Encode(path) IN
    IF rootReadable /\ ScanRoot(encoded, id) # <<>> THEN ScanRoot(encoded, id)
    ELSE LET exact == { i \in 1..Len(dirs) : dirs[i].name = encoded /\ HasFile(i, id) }
         IN IF exact # {} THEN PathOf(CHOOSE i \in exact : TRUE, id) ELSE <<>>

find_jsonl_path(path, id) ==
    LET encoded == Encode(path)
        exact == { i \in 1..Len(dirs) : dirs[i].name = encoded /\ HasFile(i, id) }
    IN IF exact # {} THEN PathOf(CHOOSE i \in exact : TRUE, id)
       ELSE IF rootReadable THEN ScanRoot(encoded, id)
       ELSE <<>>

\* the file a returned path names
FileAt(p) ==
    LET i == CHOOSE i \in 1..Len(dirs) : dirs[i].name = p.dir IN dirs[i].file[1]

----------------------------------------------------------------------------
(* read_tail_lines, claude_logs.rs:60-96.  A file is a sequence of raw     *)
(* lines, each `len` bytes long and followed by a newline; a raw line is   *)
(* blank, unparseable ("garbage") or the text of a JSON value `val`.       *)

RECURSIVE Offset(_, _)
\* byte offset at which raw line i starts; Offset(raw, Len(raw) + 1) is the size
Offset(raw, i) == IF i = 1 THEN 0 ELSE Offset(raw, i - 1) + raw[i - 1].len + 1

FileSize(raw) == Offset(raw, Len(raw) + 1)

\* u64::saturating_sub
SaturatingSub(a, b) == IF a > b THEN a - b ELSE 0

FirstKept_keepAligned(raw, seek_pos) ==
    IF seek_pos = 0 THEN 1
    ELSE LET at == { i \in 1..Len(raw) : Offset(raw, i) < seek_pos } IN
         IF at = {} THEN 1
         ELSE (CHOOSE i \in at : \A j \in at : j <= i) + 1

\* index of the first raw line that reader.lines() yields after the seek and
\* the discarding read_line
FirstKept(raw, seek_pos) ==
    IF seek_pos = 0 THEN 1
    ELSE LET at == { i \in 1..Len(raw) : Offset(raw, i) <= seek_pos } IN
         IF at = {} THEN 1
         ELSE (CHOOSE i \in at : \A j \in at : j <= i) + 1

RECURSIVE ParseFrom(_, _)
ParseFrom(raw, i) ==
    IF i > Len(raw) THEN <<>>
    ELSE IF raw[i].kind = "json" THEN <<raw[i].val>> \o ParseFrom(raw, i + 1)
    ELSE ParseFrom(raw, i + 1)

read_tail_lines(file, max_bytes) ==
    IF ~file.readable THEN <<>>
    ELSE LET seek_pos == SaturatingSub(FileSize(file.raw), max_bytes) IN
         ParseFrom(file.raw, FirstKept(file.raw, seek_pos))

----------------------------------------------------------------------------
(* read_head_lines, claude_logs.rs:99-124 *)

HEAD_BYTES == 32 * 1024

RECURSIVE HeadFrom_ge(_, _, _, _)
HeadFrom_ge(raw, i, bytes_read, limit) ==
    IF i > Len(raw) THEN <<>>
    ELSE LET read == bytes_read + raw[i].len + 1 IN
         IF read >= limit THEN <<>>
         ELSE IF raw[i].kind = "json"
              THEN <<raw[i].val>> \o HeadFrom_ge(raw, i + 1, read, limit)
              ELSE HeadFrom_ge(raw, i + 1, read, limit)

RECURSIVE HeadFrom(_, _, _, _)
\* the for loop from raw line i on, `bytes_read` bytes consumed so far
HeadFrom(raw, i, bytes_read, limit) ==
    IF i > Len(raw) THEN <<>>
    ELSE LET read == bytes_read + raw[i].len + 1 IN
         IF read > limit THEN <<>>
         ELSE IF raw[i].kind = "json"
              THEN <<raw[i].val>> \o HeadFrom(raw, i + 1, read, limit)
              ELSE HeadFrom(raw, i + 1, read, limit)

read_head_lines(f, limit) ==
    IF ~f.readable THEN <<>> ELSE HeadFrom(f.raw, 1, 0, limit)

----------------------------------------------------------------------------
(* extract_initial_prompt, extract_summary, extract_last_text and          *)
(* extract_last_tool, claude_logs.rs:126-158 and 258-296                   *)

PREVIEW_CHARS == 200

Whitespace == {" ", "\t", "\n"}

RECURSIVE TrimStart(_)
TrimStart(t) ==
    IF t # <<>> /\ Head(t) \in Whitespace THEN TrimStart(Tail(t)) ELSE t

RECURSIVE TrimEnd(_)
TrimEnd(t) ==
    IF t # <<>> /\ t[Len(t)] \in Whitespace THEN TrimEnd(SubSeq(t, 1, Len(t) - 1)) ELSE t

\* str::trim
Trim(t) == TrimEnd(TrimStart(t))

\* chars().take(n).collect()
TakeChars(t, n) == IF Len(t) <= n THEN t ELSE SubSeq(t, 1, n)

FirstText_cutFirst(content) ==
    LET hits == { k \in 1..Len(content) :
                    content[k].type = "text" /\ Trim(content[k].text) # <<>> } IN
    IF hits = {} THEN <<>>
    ELSE LET k == CHOOSE k \in hits : \A j \in hits : k <= j IN
         << Trim(TakeChars(content[k].text, PREVIEW_CHARS)) >>

\* the loop over a content array: the first text item whose trimmed text is
\* not empty, truncated; None when there is none
FirstText(content) ==
    LET hits == { k \in 1..Len(content) :
                    content[k].type = "text" /\ Trim(content[k].text) # <<>> } IN
    IF hits = {} THEN <<>>
    ELSE LET k == CHOOSE k \in hits : \A j \in hits : k <= j IN
         << TakeChars(Trim(content[k].text), PREVIEW_CHARS) >>

\* what the body of the loop of extract_initial_prompt / extract_last_text
\* returns for one line, None when it goes on to the next line
TextOf(line, role) ==
    LET msg == Msg(line) IN
    IF msg.role = role /\ msg.content # <<>> THEN FirstText(msg.content[1]) ELSE <<>>

RECURSIVE InitialPromptFrom(_, _)
InitialPromptFrom(ls, i) ==
    IF i > Len(ls) THEN <<>>
    ELSE IF TextOf(ls[i], "user") # <<>> THEN TextOf(ls[i], "user")
    ELSE InitialPromptFrom(ls, i + 1)

RECURSIVE InitialPromptBack(_, _)
InitialPromptBack(ls, i) ==
    IF i = 0 THEN <<>>
    ELSE IF TextOf(ls[i], "user") # <<>> THEN TextOf(ls[i], "user")
    ELSE InitialPromptBack(ls, i - 1)

extract_initial_prompt_latest(ls) == InitialPromptBack(ls, Len(ls))

extract_initial_prompt(ls) == InitialPromptFrom(ls, 1)

RECURSIVE SummaryFrom(_, _)
SummaryFrom(ls, i) ==
    IF i = 0 THEN <<>>
    ELSE IF ls[i].type = "summary" /\ ls[i].summary # <<>> THEN ls[i].summary
    ELSE SummaryFrom(ls, i - 1)

RECURSIVE SummaryAnyType(_, _)
SummaryAnyType(ls, i) ==
    IF i = 0 THEN <<>>
    ELSE IF ls[i].summary # <<>> THEN ls[i].summary
    ELSE SummaryAnyType(ls, i - 1)

extract_summary_anyType(ls) == SummaryAnyType(ls, Len(ls))

extract_summary(ls) == SummaryFrom(ls, Len(ls))

RECURSIVE LastTextFrom(_, _)
LastTextFrom(ls, i) ==
    IF i = 0 THEN <<>>
    ELSE IF TextOf(ls[i], "assistant") # <<>> THEN TextOf(ls[i], "assistant")
    ELSE LastTextFrom(ls, i - 1)

extract_last_text(ls) == LastTextFrom(ls, Len(ls))

ToolUses_anyRole(line) ==
    LET msg == Msg(line) IN
    IF msg.content # <<>>
    THEN { k \in 1..Len(msg.content[1]) : msg.content[1][k].type = "tool_use" }
    ELSE {}

\* positions of the tool_use items of a line of role assistant
ToolUses(line) ==
    LET msg == Msg(line) IN
    IF msg.role = "assistant" /\ msg.content # <<>>
    THEN { k \in 1..Len(msg.content[1]) : msg.content[1][k].type = "tool_use" }
    ELSE {}

\* item.get("name").and_then(as_str).map(String::from)
NameOf(item) == IF item.name = "" THEN <<>> ELSE <<item.name>>

RECURSIVE LastToolFrom(_, _)
LastToolFrom(ls, i) ==
    IF i = 0 THEN <<>>
    ELSE IF ToolUses(ls[i]) # {}
         THEN LET k == CHOOSE k \in ToolUses(ls[i]) : \A j \in ToolUses(ls[i]) : k <= j
              IN NameOf(Msg(ls[i]).content[1][k])
    ELSE LastToolFrom(ls, i - 1)

extract_last_tool(ls) == LastToolFrom(ls, Len(ls))

----------------------------------------------------------------------------
(* refine_with_tmux, claude_logs.rs:331-340; is_waiting_for_input,         *)
(* tmux.rs:77-88                                                           *)

is_waiting_for_input_anyStatus(session) ==
    \E i \in 1..Len(pane.text) : pane.text[i] = PROMPT_MARKER

\* capture-pane succeeded and its text contains the marker
is_waiting_for_input(session) ==
    pane.ok /\ \E i \in 1..Len(pane.text) : pane.text[i] = PROMPT_MARKER

\* the guard in front of the call of is_waiting_for_input
ReachesProbe(att, tmux) == att = "Running" /\ tmux # <<>> /\ tmux[1] # ""

refine_with_tmux(att, tmux) ==
    IF ReachesProbe(att, tmux) /\ is_waiting_for_input(tmux[1])
    THEN "NeedsInput" ELSE att

ProbeCalls(att, tmux) == IF ReachesProbe(att, tmux) THEN 1 ELSE 0

----------------------------------------------------------------------------
(* compute_attention, claude_logs.rs:299-328; get_session_summary, 343-382 *)

NoIdStatus_idle(status) ==
    CASE status = "running" -> "Running"
      [] status = "waiting" -> "Idle"
      [] status = "error" -> "Error"
      [] status = "idle" -> "Idle"
      [] OTHER -> "Unknown"

\* the match of compute_attention when there is no conversation id
NoIdStatus(status) ==
    CASE status = "running" -> "Running"
      [] status = "waiting" -> "Idle"
      [] status = "error" -> "Error"
      [] OTHER -> "Unknown"

NotFoundStatus_waiting(status) ==
    CASE status = "running" -> "Running"
      [] status = "waiting" -> "NeedsInput"
      [] status = "error" -> "Error"
      [] status = "idle" -> "Idle"
      [] OTHER -> "Unknown"

\* the match of both operations when find_jsonl_path returns None
NotFoundStatus(status) ==
    CASE status = "running" -> "Running"
      [] status = "waiting" -> "Idle"
      [] status = "error" -> "Error"
      [] status = "idle" -> "Idle"
      [] OTHER -> "Unknown"

----------------------------------------------------------------------------
(* Specification of the classifier as a pure function: Init draws the tail, *)
(* the coarse status and the clock; the action applies extract_attention.   *)

NoEnv ==
    /\ home = TRUE
    /\ rootReadable = TRUE
    /\ dirs = <<>>
    /\ pane = [ok |-> FALSE, text |-> <<>>]

NoCall ==
    /\ project_path = <<>>
    /\ claude_session_id = <<>>
    /\ tmux_session = <<>>
    /\ jsonl_path = <<>>
    /\ pre = "none"
    /\ probed = 0

NoPure ==
    /\ result = <<>>
    /\ lines2 = <<>>
    /\ attention2 = "none"
    /\ in_file = <<>>
    /\ in_max_bytes = 0
    /\ session_summary = <<>>

NoAgg ==
    /\ sessions = <<>>
    /\ idx = 0
    /\ candidates = <<>>
    /\ classified = <<>>
    /\ groups = <<>>
    /\ total = 0

NoDash ==
    /\ prompts = <<>>
    /\ attention_sessions = <<>>
    /\ attention_counts = <<>>

NoLater ==
    /\ NoDash
    /\ calls = <<>>
    /\ tail_reader = <<>>
    /\ pty = <<>>

Init ==
    /\ lines \in Tails
    /\ agentdeck_status \in CoarseStatuses
    /\ now \in {NowBase, NowBase + 1}
    /\ attention = "none"
    /\ pc = "start"
    /\ op = "none"
    /\ NoEnv
    /\ NoCall
    /\ NoLater
    /\ NoPure
    /\ NoAgg

ExtractAttention ==
    /\ pc = "start"
    /\ attention' = extract_attention(lines, agentdeck_status, now)
    /\ op' = "extract_attention"
    /\ pc' = "done"
    /\ UNCHANGED <<lines, agentdeck_status, now>>
    /\ UNCHANGED envVars
    /\ UNCHANGED laterVars
    /\ UNCHANGED callVars
    /\ UNCHANGED <<pureVars, session_summary, aggVars>>

Next == ExtractAttention

Spec == Init /\ [][Next]_vars

----------------------------------------------------------------------------
(* Specification of the two entry points over a disk and a pane: InitCall   *)
(* draws the environment, each action is one call with arguments drawn from *)
(* small sets.                                                              *)

ProjectPaths == { <<"/", "a", "/", "b">>, <<"/", "a">> }

DirNames == { <<"-", "a", "-", "b">>, <<"-", "a", "-", "b", "-", "w">>, <<"-", "a">> }

ConversationIds == {"c1"}

TmuxArgs == { <<>>, <<"">>, <<"s1">> }

Blank == [kind |-> "blank", len |-> 0, val |-> <<>>]

Garbage == [kind |-> "garbage", len |-> 17, val |-> <<>>]

Json(e) == [kind |-> "json", len |-> 80, val |-> e]

Files ==
    { [id |-> "c1", readable |-> TRUE,
       raw |-> << Blank,
                  Json(Wrapped("assistant", "assistant", << <<TextItem>> >>,
                               <<NowBase - STALE_SECS>>)),
                  Garbage >>],
      [id |-> "c1", readable |-> TRUE,
       raw |-> << Json(Wrapped("assistant", "assistant", << <<ToolUse("Bash")>> >>, <<>>)),
                  Json(Bare("result", "", <<>>, <<NowBase - STALE_SECS - 1>>)) >>],
      [id |-> "c1", readable |-> FALSE,
       raw |-> << Json(Wrapped("assistant", "assistant", << <<TextItem>> >>, <<>>)) >>] }

DirEntries == { [name |-> n, file |-> f] : n \in DirNames, f \in {<<>>} \cup { <<x>> : x \in Files } }

\* the root's listings: distinct names, in any enumeration order
Roots ==
    { d \in SeqsUpTo(DirEntries, MaxDirs) :
        \A i, j \in 1..Len(d) : i # j => d[i].name # d[j].name }

PaneStates ==
    { [ok |-> FALSE, text |-> <<>>],
      [ok |-> FALSE, text |-> <<PROMPT_MARKER>>],
      [ok |-> TRUE, text |-> <<"$ cargo test", PROMPT_MARKER>>],
      [ok |-> TRUE, text |-> <<"$ cargo test">>] }

InitCall ==
    /\ lines = <<>>
    /\ agentdeck_status = ""
    /\ now = NowBase
    /\ attention = "none"
    /\ pc = "start"
    /\ op = "none"
    /\ home \in BOOLEAN
    /\ rootReadable \in BOOLEAN
    /\ (~home => ~rootReadable)
    /\ dirs \in Roots
    /\ pane \in PaneStates
    /\ NoCall
    /\ NoLater
    /\ NoPure
    /\ NoAgg

\* the call returns `att` after refinement of `before`
Return(before, tmux) ==
    /\ pre' = before
    /\ attention' = refine_with_tmux(before, tmux)
    /\ probed' = probed + ProbeCalls(before, tmux)
    /\ pc' = "done"

NoExtracts ==
    [summary |-> <<>>, initial_prompt |-> <<>>, last_tool |-> <<>>, last_text |-> <<>>]

\* the SessionSummary fields get_session_summary builds next to `attention`
Extracts(path, id) ==
    IF ~home THEN <<>>
    ELSE LET found == find_jsonl_path(path, id) IN
         IF found = <<>> THEN <<NoExtracts>>
         ELSE LET tail == read_tail_lines(FileAt(found[1]), TAIL_BYTES)
                  head_lines == read_head_lines(FileAt(found[1]), HEAD_BYTES)
              IN << [summary |-> extract_summary(tail),
                     initial_prompt |-> extract_initial_prompt(head_lines),
                     last_tool |-> extract_last_tool(tail),
                     last_text |-> extract_last_text(tail)] >>

\* claude_projects_dir: home_dir().expect(..) aborts the call
Panic ==
    /\ pre' = "none"
    /\ attention' = "none"
    /\ probed' = probed
    /\ pc' = "panic"

\* from find_jsonl_path on: shared by the two entry points
Locate(path, id, status, tmux) ==
    IF ~home THEN
        Panic /\ jsonl_path' = <<>> /\ lines' = <<>>
    ELSE LET found == find_jsonl_path(path, id) IN
        /\ jsonl_path' = found
        /\ IF found = <<>> THEN
              /\ lines' = <<>>
              /\ Return(NotFoundStatus(status), tmux)
           ELSE
              /\ lines' = read_tail_lines(FileAt(found[1]), TAIL_BYTES)
              /\ Return(extract_attention(lines', status, now), tmux)

ComputeAttention(path, id, status, tmux) ==
    /\ pc = "start"
    /\ op' = "compute_attention"
    /\ project_path' = path
    /\ claude_session_id' = id
    /\ agentdeck_status' = status
    /\ tmux_session' = tmux
    /\ IF id = <<>> THEN
          /\ jsonl_path' = <<>>
          /\ lines' = <<>>
          /\ Return(NoIdStatus(status), tmux)
       ELSE Locate(path, id[1], status, tmux)
    /\ UNCHANGED now
    /\ UNCHANGED envVars
    /\ UNCHANGED laterVars
    /\ UNCHANGED <<pureVars, session_summary, aggVars>>

GetSessionSummary(path, id, status, tmux) ==
    /\ pc = "start"
    /\ op' = "get_session_summary"
    /\ project_path' = path
    /\ claude_session_id' = <<id>>
    /\ agentdeck_status' = status
    /\ tmux_session' = tmux
    /\ Locate(path, id, status, tmux)
    /\ session_summary' = Extracts(path, id)
    /\ UNCHANGED now
    /\ UNCHANGED envVars
    /\ UNCHANGED laterVars
    /\ UNCHANGED <<pureVars, aggVars>>

NextCall ==
    \/ \E path \in ProjectPaths, id \in {<<>>} \cup { <<c>> : c \in ConversationIds },
          status \in CoarseStatuses, tmux \in TmuxArgs :
            ComputeAttention(path, id, status, tmux)
    \/ \E path \in ProjectPaths, id \in ConversationIds,
          status \in CoarseStatuses, tmux \in TmuxArgs :
            GetSessionSummary(path, id, status, tmux)

SpecCall == InitCall /\ [][NextCall]_vars

----------------------------------------------------------------------------
(* get_attention_counts, agentdeck.rs:466-527.  InitAgg draws the rows of   *)
(* the instances table (in the order the query yields them), the disk and   *)
(* the clock; the loop consumes one candidate row per step.                 *)

MaxSessions == 2

\* the value compute_attention hands to refine_with_tmux; "panic" when
\* claude_projects_dir aborts
PreRefine(path, id, status) ==
    IF id = <<>> THEN NoIdStatus(status)
    ELSE IF ~home THEN "panic"
    ELSE LET found == find_jsonl_path(path, id[1]) IN
         IF found = <<>> THEN NotFoundStatus(status)
         ELSE extract_attention(read_tail_lines(FileAt(found[1]), TAIL_BYTES), status, now)

compute_attention(path, id, status, tmux) ==
    LET before == PreRefine(path, id, status) IN
    IF before = "panic" THEN "panic" ELSE refine_with_tmux(before, tmux)

IsCandidate_any(row) == TRUE

\* WHERE status IN ('waiting', 'error')
IsCandidate(row) == row.status \in {"waiting", "error"}

RECURSIVE Select(_)
Select(rows) ==
    IF rows = <<>> THEN <<>>
    ELSE IF IsCandidate(Head(rows)) THEN <<Head(rows)>> \o Select(Tail(rows))
    ELSE Select(Tail(rows))

RefinedStatus_stale(att) ==
    CASE att = "NeedsInput" -> "waiting"
      [] att = "Error" -> "error"
      [] att = "Stale" -> "error"
      [] OTHER -> "skip"

\* the match on the classification; "skip" is the `continue` arm
RefinedStatus(att) ==
    CASE att = "NeedsInput" -> "waiting"
      [] att = "Error" -> "error"
      [] OTHER -> "skip"

Put(map, key, value) ==
    [k \in (DOMAIN map) \cup {key} |-> IF k = key THEN value ELSE map[k]]

Merge_lastWins(map, group_path, refined_status) == Put(map, group_path, refined_status)

Merge_firstWins(map, group_path, refined_status) ==
    IF group_path \notin DOMAIN map THEN Put(map, group_path, refined_status) ELSE map

\* "waiting" (needs_input) takes priority over "error"
Merge(map, group_path, refined_status) ==
    IF \/ group_path \notin DOMAIN map
       \/ (map[group_path] = "error" /\ refined_status = "waiting")
    THEN Put(map, group_path, refined_status)
    ELSE map

EmptyMap == [k \in {} |-> ""]

GroupPaths == {"g1", "g2"}

StoreStatuses == {"waiting", "error", "running"}

Rows ==
    [project_path : ProjectPaths, group_path : GroupPaths, status : StoreStatuses,
     claude_session_id : {<<>>} \cup { <<c>> : c \in ConversationIds }]

Reply(ts) ==
    [id |-> "c1", readable |-> TRUE,
     raw |-> << Json(Wrapped("assistant", "assistant", << <<TextItem>> >>, ts)) >>]

Asking ==
    [id |-> "c1", readable |-> TRUE,
     raw |-> << Json(Wrapped("user", "user", << <<TextItem>> >>, <<>>)),
                Json(Wrapped("assistant", "assistant",
                             << <<ToolUse("AskUserQuestion")>> >>, <<>>)) >>]

\* /a/b has a transcript ending in a plain reply, /a one ending in a question
AggRoots ==
    { <<>>,
      << [name |-> <<"-", "a", "-", "b">>, file |-> <<Reply(<<NowBase - STALE_SECS>>)>>],
         [name |-> <<"-", "a">>, file |-> <<Asking>>] >> }

InitAgg ==
    /\ sessions \in SeqsUpTo(Rows, MaxSessions)
    /\ dirs \in AggRoots
    /\ home \in BOOLEAN
    /\ rootReadable = home
    /\ now \in {NowBase, NowBase + 1}
    /\ pane = [ok |-> TRUE, text |-> <<PROMPT_MARKER>>]
    /\ lines = <<>>
    /\ agentdeck_status = ""
    /\ attention = "none"
    /\ pc = "start"
    /\ op = "none"
    /\ NoCall
    /\ NoLater
    /\ NoPure
    /\ idx = 0
    /\ candidates = <<>>
    /\ classified = <<>>
    /\ groups = EmptyMap
    /\ total = 0

AggFrame ==
    /\ UNCHANGED <<lines, agentdeck_status, now, attention>>
    /\ UNCHANGED envVars
    /\ UNCHANGED laterVars
    /\ UNCHANGED <<project_path, claude_session_id, tmux_session, jsonl_path, pre>>
    /\ UNCHANGED <<pureVars, session_summary, sessions>>

\* open_db_readonly, prepare and query_map succeed: the loop starts
AggQuery ==
    /\ pc = "start"
    /\ op' = "get_attention_counts"
    /\ candidates' = Select(sessions)
    /\ pc' = "loop"
    /\ UNCHANGED <<idx, classified, groups, total, probed>>
    /\ AggFrame

\* one of them fails: Err(String) is returned
AggQueryFails ==
    /\ pc = "start"
    /\ op' = "get_attention_counts"
    /\ pc' = "err"
    /\ UNCHANGED <<idx, candidates, classified, groups, total, probed>>
    /\ AggFrame

\* one iteration of `for row in rows`
AggRow ==
    /\ pc = "loop"
    /\ idx < Len(candidates)
    /\ LET row == candidates[idx + 1]
           before == PreRefine(row.project_path, row.claude_session_id, row.status)
           att == compute_attention(row.project_path, row.claude_session_id,
                                    row.status, <<>>)
           refined_status == RefinedStatus(att)
       IN IF att = "panic" THEN
             /\ pc' = "panic"
             /\ UNCHANGED <<idx, classified, groups, total, probed>>
          ELSE
             /\ idx' = idx + 1
             /\ classified' = Append(classified, att)
             /\ probed' = probed + ProbeCalls(before, <<>>)
             /\ IF refined_status = "skip" THEN UNCHANGED <<groups, total>>
                ELSE /\ total' = total + 1
                     /\ groups' = Merge(groups, row.group_path, refined_status)
             /\ pc' = "loop"
    /\ UNCHANGED <<op, candidates>>
    /\ AggFrame

\* row.map_err(..)? : a row that cannot be read ends the call with Err
AggRowFails ==
    /\ pc = "loop"
    /\ idx < Len(candidates)
    /\ pc' = "err"
    /\ UNCHANGED <<op, idx, candidates, classified, groups, total, probed>>
    /\ AggFrame

\* Ok(AttentionCounts { total, groups })
AggReturn ==
    /\ pc = "loop"
    /\ idx = Len(candidates)
    /\ pc' = "done"
    /\ UNCHANGED <<op, idx, candidates, classified, groups, total, probed>>
    /\ AggFrame

NextAgg == AggQuery \/ AggQueryFails \/ AggRow \/ AggRowFails \/ AggReturn

SpecAgg == InitAgg /\ [][NextAgg]_vars

----------------------------------------------------------------------------
(* Specification of two classifications side by side: InitPair draws a     *)
(* tail and a second one that differs from it in is_error flags only.       *)

FlipItem(item) ==
    IF item.type = "tool_result" THEN [item EXCEPT !.is_error = ~@] ELSE item

FlipContent(c) ==
    IF c = <<>> THEN <<>> ELSE << [k \in 1..Len(c[1]) |-> FlipItem(c[1][k])] >>

FlipEntry(e) ==
    [e EXCEPT !.content = FlipContent(@),
              !.message = IF @ = <<>> THEN <<>>
                          ELSE << [@[1] EXCEPT !.content = FlipContent(@)] >>]

\* the tails got from ls by flipping the tool_result flags of some entries
Flips(ls) ==
    { [i \in 1..Len(ls) |-> IF i \in S THEN FlipEntry(ls[i]) ELSE ls[i]] :
        S \in SUBSET (1..Len(ls)) }

InitPair ==
    /\ lines \in Tails
    /\ lines2 \in Flips(lines)
    /\ agentdeck_status \in CoarseStatuses
    /\ now \in {NowBase, NowBase + 1}
    /\ attention = "none"
    /\ attention2 = "none"
    /\ pc = "start"
    /\ op = "none"
    /\ NoEnv
    /\ NoCall
    /\ NoLater
    /\ NoAgg
    /\ result = <<>>
    /\ in_file = <<>>
    /\ in_max_bytes = 0
    /\ session_summary = <<>>

ExtractPair ==
    /\ pc = "start"
    /\ attention' = extract_attention(lines, agentdeck_status, now)
    /\ attention2' = extract_attention(lines2, agentdeck_status, now)
    /\ op' = "extract_pair"
    /\ pc' = "done"
    /\ UNCHANGED <<lines, lines2, agentdeck_status, now>>
    /\ UNCHANGED envVars
    /\ UNCHANGED laterVars
    /\ UNCHANGED callVars
    /\ UNCHANGED <<result, in_file, in_max_bytes, session_summary, aggVars>>

NextPair == ExtractPair

SpecPair == InitPair /\ [][NextPair]_vars

----------------------------------------------------------------------------
(* Specification of the four extracts as pure functions: InitExtract draws *)
(* the window, each action applies one extract to it.                      *)

Repeat(c, n) == [i \in 1..n |-> c]

Short == <<"h", "i">>

Padded == <<" ", "o", "k", "\n">>

Spaces == <<" ", "\t">>

Long == <<" ">> \o Repeat("a", PREVIEW_CHARS + 100)

Exact == Repeat("b", PREVIEW_CHARS)

ExtractEntries ==
    { Wrapped("assistant", "assistant", << <<Text(Short)>> >>, <<>>),
      Wrapped("assistant", "assistant",
              << <<Text(Spaces), Text(Padded), ToolUse("Read")>> >>, <<>>),
      Wrapped("assistant", "assistant", << <<Text(Long)>> >>, <<>>),
      Wrapped("assistant", "assistant", << <<ToolUse(""), ToolUse("Bash")>> >>, <<>>),
      Wrapped("assistant", "assistant", << <<Text(Spaces)>> >>, <<>>),
      Wrapped("assistant", "assistant", <<>>, <<>>),
      Bare("result", "assistant", << <<Text(Exact)>> >>, <<>>),
      Wrapped("user", "user", << <<Text(Padded)>> >>, <<>>),
      Wrapped("user", "user", << <<ToolResult(FALSE), Text(Long)>> >>, <<>>),
      Wrapped("user", "user", << <<Text(<<>>)>> >>, <<>>),
      Wrapped("user", "user", << <<ToolUse("Edit")>> >>, <<>>),
      WithSummary("summary", <<"First">>),
      WithSummary("summary", <<"Second">>),
      WithSummary("summary", <<>>),
      WithSummary("assistant", <<"Not a summary entry">>) }

InitExtract ==
    /\ lines \in SeqsUpTo(ExtractEntries, MaxLines)
    /\ agentdeck_status = ""
    /\ now = NowBase
    /\ attention = "none"
    /\ pc = "start"
    /\ op = "none"
    /\ NoEnv
    /\ NoCall
    /\ NoLater
    /\ NoPure
    /\ NoAgg

ExtractFrame ==
    /\ pc = "start"
    /\ pc' = "done"
    /\ UNCHANGED <<lines, agentdeck_status, now, attention>>
    /\ UNCHANGED envVars
    /\ UNCHANGED laterVars
    /\ UNCHANGED callVars
    /\ UNCHANGED <<lines2, attention2, in_file, in_max_bytes, session_summary, aggVars>>

ExtractSummary ==
    /\ result' = extract_summary(lines)
    /\ op' = "extract_summary"
    /\ ExtractFrame

ExtractInitialPrompt ==
    /\ result' = extract_initial_prompt(lines)
    /\ op' = "extract_initial_prompt"
    /\ ExtractFrame

ExtractLastText ==
    /\ result' = extract_last_text(lines)
    /\ op' = "extract_last_text"
    /\ ExtractFrame

ExtractLastTool ==
    /\ result' = extract_last_tool(lines)
    /\ op' = "extract_last_tool"
    /\ ExtractFrame

NextExtract ==
    ExtractSummary \/ ExtractInitialPrompt \/ ExtractLastText \/ ExtractLastTool

SpecExtract == InitExtract /\ [][NextExtract]_vars

----------------------------------------------------------------------------
(* Specification of the two readers as pure functions of a file and a byte *)
(* limit: Init draws the file and the limit, the actions apply             *)
(* read_tail_lines and read_head_lines.                                    *)

MaxRaw == 3

MaxBytes == 16

\* raw lines of different byte lengths: empty, whitespace only, not JSON, and
\* the texts of two JSON values
RawLines ==
    { [kind |-> "blank", len |-> 0, val |-> <<>>],
      [kind |-> "blank", len |-> 2, val |-> <<>>],
      [kind |-> "garbage", len |-> 3, val |-> <<>>],
      [kind |-> "json", len |-> 2, val |-> WithSummary("summary", <<"First">>)],
      [kind |-> "json", len |-> 4,
       val |-> Wrapped("user", "user", << <<TextItem>> >>, <<>>)] }

InitRead ==
    /\ in_file \in { [id |-> "c1", readable |-> r, raw |-> raw] :
                        r \in BOOLEAN, raw \in SeqsUpTo(RawLines, MaxRaw) }
    /\ in_max_bytes \in 0..MaxBytes
    /\ lines = <<>>
    /\ agentdeck_status = ""
    /\ now = NowBase
    /\ attention = "none"
    /\ pc = "start"
    /\ op = "none"
    /\ NoEnv
    /\ NoCall
    /\ NoLater
    /\ result = <<>>
    /\ lines2 = <<>>
    /\ attention2 = "none"
    /\ session_summary = <<>>
    /\ NoAgg

ReadFrame ==
    /\ pc = "start"
    /\ pc' = "done"
    /\ UNCHANGED <<agentdeck_status, now, attention>>
    /\ UNCHANGED envVars
    /\ UNCHANGED laterVars
    /\ UNCHANGED callVars
    /\ UNCHANGED <<result, lines2, attention2, in_file, in_max_bytes,
                   session_summary, aggVars>>

ReadTailLines ==
    /\ lines' = read_tail_lines(in_file, in_max_bytes)
    /\ op' = "read_tail_lines"
    /\ ReadFrame

ReadHeadLines ==
    /\ lines' = read_head_lines(in_file, in_max_bytes)
    /\ op' = "read_head_lines"
    /\ ReadFrame

NextRead == ReadTailLines \/ ReadHeadLines

SpecRead == InitRead /\ [][NextRead]_vars

----------------------------------------------------------------------------
(* Specification of find_jsonl_path called repeatedly over one set of      *)
(* directories.  read_dir promises no order, so every call sees the root's *)
(* entries in an order of its own.                                         *)

LocateIds == {"c1", "c2"}

LocateEntries ==
    { [name |-> n, file |-> f] :
        n \in DirNames,
        f \in {<<>>} \cup { << [id |-> c, readable |-> TRUE, raw |-> <<>>] >> : c \in LocateIds } }

\* the orders in which read_dir may yield the entries d
Reorderings(d) ==
    { [i \in 1..Len(d) |-> d[p[i]]] : p \in Permutations(1..Len(d)) }

InitLocate ==
    /\ lines = <<>>
    /\ agentdeck_status = ""
    /\ now = NowBase
    /\ attention = "none"
    /\ pc = "start"
    /\ op = "none"
    /\ home \in BOOLEAN
    /\ rootReadable \in BOOLEAN
    /\ (~home => ~rootReadable)
    /\ dirs \in { d \in SeqsUpTo(LocateEntries, MaxDirs) :
                    \A i, j \in 1..Len(d) : i # j => d[i].name # d[j].name }
    /\ pane = [ok |-> FALSE, text |-> <<>>]
    /\ NoCall
    /\ NoLater
    /\ NoPure
    /\ NoAgg

FindJsonlPath(path, id) ==
    /\ pc \in {"start", "done"}
    /\ op' = "find_jsonl_path"
    /\ project_path' = path
    /\ claude_session_id' = <<id>>
    /\ UNCHANGED <<home, rootReadable, pane>>
    /\ UNCHANGED laterVars
    /\ dirs' \in Reorderings(dirs)
    /\ IF ~home THEN pc' = "panic" /\ jsonl_path' = <<>>
       ELSE pc' = "done" /\ jsonl_path' = find_jsonl_path(path, id)'
    /\ UNCHANGED <<lines, agentdeck_status, now, attention, tmux_session, pre, probed>>
    /\ UNCHANGED <<pureVars, session_summary, aggVars>>

NextLocate == \E path \in ProjectPaths, id \in LocateIds : FindJsonlPath(path, id)

SpecLocate == InitLocate /\ [][NextLocate]_vars

----------------------------------------------------------------------------
(* Specification of the dashboard: the four read operations called one     *)
(* after the other, in any order, over one session store and one disk,     *)
(* while the clock advances.  Each call is one step.  The rows of the      *)
(* store are kept in the order of ORDER BY group_path, sort_order.         *)

MaxTicks == 1

\* a transcript file with the modification time std::fs::metadata reports
Timed(f, mtime) ==
    [id |-> f.id, readable |-> f.readable, raw |-> f.raw, mtime |-> mtime]

\* /a/b has a transcript ending in a plain reply that turns stale after one
\* tick, /a one ending in a question
DashRoot ==
    << [name |-> <<"-", "a", "-", "b">>,
        file |-> << Timed(Reply(<<NowBase - STALE_SECS>>), <<NowBase - 1>>) >>],
       [name |-> <<"-", "a">>, file |-> << Timed(Asking, <<>>) >>] >>

RowKinds ==
    { [project_path |-> <<"/", "a", "/", "b">>, group_path |-> "g1", status |-> "error",
       claude_session_id |-> <<"c1">>, last_accessed |-> 0],
      [project_path |-> <<"/", "a">>, group_path |-> "g1", status |-> "waiting",
       claude_session_id |-> <<"c1">>, last_accessed |-> 0],
      [project_path |-> <<"/", "a">>, group_path |-> "g2", status |-> "waiting",
       claude_session_id |-> <<"c1">>, last_accessed |-> NowBase],
      [project_path |-> <<"/", "a">>, group_path |-> "g2", status |-> "running",
       claude_session_id |-> <<"c1">>, last_accessed |-> 0],
      [project_path |-> <<"/", "a", "/", "b">>, group_path |-> "g2", status |-> "waiting",
       claude_session_id |-> <<>>, last_accessed |-> 0],
      [project_path |-> <<"/", "a", "/", "b">>, group_path |-> "g2", status |-> "error",
       claude_session_id |-> <<>>, last_accessed |-> NowBase] }

\* a row of the instances table: its id is its position
RowAt(q, i) ==
    [id |-> i, project_path |-> q[i].project_path, group_path |-> q[i].group_path,
     status |-> q[i].status, claude_session_id |-> q[i].claude_session_id,
     last_accessed |-> q[i].last_accessed]

Stores ==
    { [i \in 1..Len(q) |-> RowAt(q, i)] :
        q \in { r \in SeqsUpTo(RowKinds, MaxSessions) :
                  \A i, j \in 1..Len(r) :
                     (i < j /\ r[i].group_path = "g2") => r[j].group_path = "g2" } }

\* a connection opened with SQLITE_OPEN_READ_ONLY: what the call does to the
\* rows it fetched stays in its own memory
open_db_readonly_writeBack(table, fetched) ==
    [i \in 1..Len(table) |->
        IF \E j \in 1..Len(fetched) : fetched[j].id = table[i].id
        THEN LET j == CHOOSE j \in 1..Len(fetched) : fetched[j].id = table[i].id
             IN [table[i] EXCEPT !.last_accessed = fetched[j].last_accessed]
        ELSE table[i]]

open_db_readonly(table, fetched) == table

\* fix_last_accessed on one session
FixOne(s) ==
    IF s.last_accessed <= 0 /\ s.claude_session_id # <<>>
    THEN LET found == find_jsonl_path(s.project_path, s.claude_session_id[1]) IN
         IF found # <<>> /\ FileAt(found[1]).mtime # <<>>
         THEN [s EXCEPT !.last_accessed = FileAt(found[1]).mtime[1]]
         ELSE s
    ELSE s

fix_last_accessed(rows) == [i \in 1..Len(rows) |-> FixOne(rows[i])]

\* the classification the two queries ask for: no pane identifier
Classify(s) == compute_attention(s.project_path, s.claude_session_id, s.status, <<>>)

IsActionable_needsInputOnly(att) == att = "NeedsInput"

\* matches!(attention, NeedsInput | Error)
IsActionable(att) == att \in {"NeedsInput", "Error"}

\* the Session handed to the caller
WithPrompt(s) ==
    [id |-> s.id, project_path |-> s.project_path, group_path |-> s.group_path,
     status |-> s.status, claude_session_id |-> s.claude_session_id,
     last_accessed |-> s.last_accessed,
     prompt |-> IF s.id \in DOMAIN prompts THEN <<prompts[s.id]>> ELSE <<>>]

RECURSIVE KeepActionable(_)
\* .filter(..).map(..).collect()
KeepActionable(rows) ==
    IF rows = <<>> THEN <<>>
    ELSE IF IsActionable(Classify(Head(rows)))
         THEN <<WithPrompt(Head(rows))>> \o KeepActionable(Tail(rows))
         ELSE KeepActionable(Tail(rows))

RECURSIVE CountFrom(_, _)
\* the for loop of get_attention_counts over the rows left
CountFrom(rows, acc) ==
    IF rows = <<>> THEN acc
    ELSE LET refined_status == RefinedStatus(Classify(Head(rows))) IN
         CountFrom(Tail(rows),
                   IF refined_status = "skip" THEN acc
                   ELSE [acc EXCEPT !.total = @ + 1,
                                    !.groups = Merge(@, Head(rows).group_path,
                                                     refined_status)])

\* claude_projects_dir aborts the call at the first candidate it is reached for
Aborts(rows) == \E i \in 1..Len(rows) : Classify(rows[i]) = "panic"

InitDash ==
    /\ sessions \in Stores
    /\ prompts \in { <<>>, <<"fix the build">> }
    /\ dirs = DashRoot
    /\ home \in BOOLEAN
    /\ rootReadable = home
    /\ now = NowBase
    /\ pane = [ok |-> TRUE, text |-> <<PROMPT_MARKER>>]
    /\ lines = <<>>
    /\ agentdeck_status = ""
    /\ attention = "none"
    /\ pc = "start"
    /\ op = "none"
    /\ project_path = <<>>
    /\ claude_session_id = <<>>
    /\ tmux_session = <<>>
    /\ jsonl_path = <<>>
    /\ pre = "none"
    /\ probed = 0
    /\ NoPure
    /\ idx = 0
    /\ candidates = <<>>
    /\ classified = <<>>
    /\ groups = <<>>
    /\ total = 0
    /\ attention_sessions = <<>>
    /\ attention_counts = <<>>
    /\ calls = <<>>
    /\ tail_reader = <<>>
    /\ pty = <<>>

DashFrame ==
    /\ pc = "start"
    /\ UNCHANGED <<calls, tail_reader, pty>>
    /\ UNCHANGED <<lines, agentdeck_status, now, attention>>
    /\ UNCHANGED envVars
    /\ UNCHANGED callVars
    /\ UNCHANGED <<pureVars, session_summary, prompts>>
    /\ UNCHANGED <<idx, candidates, classified, groups, total>>

\* get_attention_counts, agentdeck.rs:466-527, as one step
GetAttentionCounts ==
    /\ op' = "get_attention_counts"
    /\ LET rows == Select(sessions) IN
       /\ sessions' = open_db_readonly(sessions, rows)
       /\ IF Aborts(rows) THEN pc' = "panic" /\ UNCHANGED attention_counts
          ELSE /\ pc' = "done"
               /\ attention_counts' =
                     << [counts |-> CountFrom(rows, [total |-> 0, groups |-> EmptyMap]),
                         at |-> now] >>
    /\ UNCHANGED attention_sessions
    /\ DashFrame

\* get_attention_sessions, agentdeck.rs:530-575, as one step
GetAttentionSessions ==
    /\ op' = "get_attention_sessions"
    /\ LET rows == Select(sessions) IN
       /\ IF Aborts(rows)
          THEN /\ pc' = "panic"
               /\ sessions' = open_db_readonly(sessions, rows)
               /\ UNCHANGED attention_sessions
          ELSE /\ pc' = "done"
               /\ sessions' = open_db_readonly(sessions, fix_last_accessed(rows))
               /\ attention_sessions' =
                     << [list |-> KeepActionable(fix_last_accessed(rows)), at |-> now] >>
    /\ UNCHANGED attention_counts
    /\ DashFrame

\* either query ends with Err(String): the store cannot be opened or read
QueryFails ==
    /\ op' \in {"get_attention_counts", "get_attention_sessions"}
    /\ pc' = "err"
    /\ UNCHANGED <<sessions, attention_sessions, attention_counts>>
    /\ DashFrame

\* the caller issues its next command
Invoke ==
    /\ pc \in {"done", "panic", "err"}
    /\ pc' = "start"
    /\ UNCHANGED <<lines, agentdeck_status, now, attention, op>>
    /\ UNCHANGED envVars
    /\ UNCHANGED callVars
    /\ UNCHANGED <<pureVars, session_summary, aggVars, laterVars>>

\* SystemTime::now() moves on between two calls
Tick ==
    /\ pc = "start"
    /\ now < NowBase + MaxTicks
    /\ now' = now + 1
    /\ UNCHANGED <<lines, agentdeck_status, attention, pc, op>>
    /\ UNCHANGED envVars
    /\ UNCHANGED callVars
    /\ UNCHANGED <<pureVars, session_summary, aggVars, laterVars>>

NextDash ==
    \/ \E i \in 1..Len(sessions) :
          ComputeAttention(sessions[i].project_path, sessions[i].claude_session_id,
                           sessions[i].status, <<>>)
    \/ \E i \in 1..Len(sessions) :
          /\ sessions[i].claude_session_id # <<>>
          /\ GetSessionSummary(sessions[i].project_path, sessions[i].claude_session_id[1],
                               sessions[i].status, <<>>)
    \/ GetAttentionCounts
    \/ GetAttentionSessions
    \/ QueryFails
    \/ Invoke
    \/ Tick

SpecDash == InitDash /\ [][NextDash]_vars

----------------------------------------------------------------------------
(* Specification of several calls running side by side over one store and  *)
(* one disk.  Every call has its own locals; a step of one call is one     *)
(* action, so the steps of different calls interleave freely.              *)

MaxCalls == 2

Callers == 1..MaxCalls

CallKinds == {"compute_attention", "get_session_summary", "get_attention_counts"}

\* two candidates of one group, the second of which outranks the first, with
\* or without a third row without conversation id
ConcStores ==
    { [i \in 1..Len(q) |-> RowAt(q, i)] :
        q \in { << [project_path |-> <<"/", "a", "/", "b">>, group_path |-> "g1",
                    status |-> "error", claude_session_id |-> <<"c1">>,
                    last_accessed |-> 0],
                   [project_path |-> <<"/", "a">>, group_path |-> "g1",
                    status |-> "waiting", claude_session_id |-> <<"c1">>,
                    last_accessed |-> 0] >>,
                << [project_path |-> <<"/", "a">>, group_path |-> "g2",
                    status |-> "waiting", claude_session_id |-> <<"c1">>,
                    last_accessed |-> 0],
                   [project_path |-> <<"/", "a", "/", "b">>, group_path |-> "g2",
                    status |-> "error", claude_session_id |-> <<>>,
                    last_accessed |-> 0] >> } }

\* a call that has not started: its kind, its arguments and its empty locals
Fresh(kind, row) ==
    [kind |-> kind, row |-> row, pc |-> "start", jsonl_path |-> <<>>, lines |-> <<>>,
     candidates |-> <<>>, idx |-> 0, groups |-> EmptyMap, total |-> 0, result |-> <<>>]

Frame_static(c) == 1

\* `let mut groups` / `let mut total`: locals live in the frame of their call
Frame(c) == c

InitConc ==
    /\ sessions \in ConcStores
    /\ calls \in [Callers -> { Fresh(k, r) : k \in CallKinds,
                                r \in { sessions[i] : i \in 1..Len(sessions) } }]
    /\ \A c \in Callers :
          calls[c].kind = "get_session_summary" => calls[c].row.claude_session_id # <<>>
    /\ dirs = DashRoot
    /\ home \in BOOLEAN
    /\ rootReadable = home
    /\ now = NowBase
    /\ pane = [ok |-> TRUE, text |-> <<PROMPT_MARKER>>]
    /\ lines = <<>>
    /\ agentdeck_status = ""
    /\ attention = "none"
    /\ pc = "start"
    /\ op = "none"
    /\ NoCall
    /\ NoPure
    /\ idx = 0
    /\ candidates = <<>>
    /\ classified = <<>>
    /\ groups = <<>>
    /\ total = 0
    /\ NoDash
    /\ tail_reader = <<>>
    /\ pty = <<>>

ConcFrame ==
    /\ UNCHANGED <<lines, agentdeck_status, now, attention, pc, op>>
    /\ UNCHANGED envVars
    /\ UNCHANGED callVars
    /\ UNCHANGED <<pureVars, session_summary, aggVars, dashVars, tail_reader, pty>>

\* what the call hands back for a status computed before refinement
Answer(c, before) ==
    IF calls[c].kind = "compute_attention" THEN refine_with_tmux(before, <<>>)
    ELSE [attention |-> refine_with_tmux(before, <<>>),
          extracts |-> IF calls[c].jsonl_path = <<>> THEN NoExtracts
                       ELSE [summary |-> extract_summary(calls[c].lines),
                             initial_prompt |->
                                extract_initial_prompt(
                                   read_head_lines(FileAt(calls[c].jsonl_path[1]), HEAD_BYTES)),
                             last_tool |-> extract_last_tool(calls[c].lines),
                             last_text |-> extract_last_text(calls[c].lines)]]

\* compute_attention / get_session_summary up to read_tail_lines
ConcLocate(c) ==
    /\ calls[c].kind \in {"compute_attention", "get_session_summary"}
    /\ calls[c].pc = "start"
    /\ LET row == calls[c].row IN
       IF row.claude_session_id = <<>> THEN
          calls' = [calls EXCEPT ![c].pc = "done",
                                 ![c].result = <<Answer(c, NoIdStatus(row.status))>>]
       ELSE IF ~home THEN
          calls' = [calls EXCEPT ![c].pc = "panic"]
       ELSE LET found == find_jsonl_path(row.project_path, row.claude_session_id[1]) IN
          IF found = <<>> THEN
             calls' = [calls EXCEPT ![c].pc = "done",
                                    ![c].result = <<Answer(c, NotFoundStatus(row.status))>>]
          ELSE
             calls' = [calls EXCEPT ![c].pc = "read",
                                    ![c].jsonl_path = found,
                                    ![c].lines = read_tail_lines(FileAt(found[1]), TAIL_BYTES)]
    /\ ConcFrame

\* ... and from extract_attention to the return
ConcClassify(c) ==
    /\ calls[c].pc = "read"
    /\ calls' = [calls EXCEPT
                   ![c].pc = "done",
                   ![c].result = <<Answer(c, extract_attention(calls[c].lines,
                                                               calls[c].row.status, now))>>]
    /\ ConcFrame

\* get_attention_counts: the query, and the locals set up
ConcQuery(c) ==
    /\ calls[c].kind = "get_attention_counts"
    /\ calls[c].pc = "start"
    /\ calls' = [calls EXCEPT ![c].pc = "loop",
                              ![c].candidates = Select(sessions),
                              ![Frame(c)].groups = EmptyMap,
                              ![Frame(c)].total = 0]
    /\ ConcFrame

\* one iteration of its loop
ConcRow(c) ==
    /\ calls[c].pc = "loop"
    /\ calls[c].idx < Len(calls[c].candidates)
    /\ LET row == calls[c].candidates[calls[c].idx + 1]
           att == Classify(row)
           refined_status == RefinedStatus(att)
       IN IF att = "panic" THEN calls' = [calls EXCEPT ![c].pc = "panic"]
          ELSE IF refined_status = "skip" THEN calls' = [calls EXCEPT ![c].idx = @ + 1]
          ELSE calls' = [calls EXCEPT
                           ![c].idx = @ + 1,
                           ![Frame(c)].total = @ + 1,
                           ![Frame(c)].groups = Merge(@, row.group_path, refined_status)]
    /\ ConcFrame

\* Ok(AttentionCounts { total, groups })
ConcReturn(c) ==
    /\ calls[c].pc = "loop"
    /\ calls[c].idx = Len(calls[c].candidates)
    /\ calls' = [calls EXCEPT
                   ![c].pc = "done",
                   ![c].result = << [total |-> calls[Frame(c)].total,
                                     groups |-> calls[Frame(c)].groups] >>]
    /\ ConcFrame

NextConc ==
    \E c \in Callers :
        ConcLocate(c) \/ ConcClassify(c) \/ ConcQuery(c) \/ ConcRow(c) \/ ConcReturn(c)

SpecConc == InitConc /\ [][NextConc]_vars

----------------------------------------------------------------------------
(* Specification of the PTY manager, pty.rs.  Commands run on threads of   *)
(* their own; the sessions map sits behind a Mutex, so what a command does *)
(* between taking and releasing the lock is one step.  A PtySession is a   *)
(* number; pty.objs records what has become of each: "live" (child         *)
(* running), "shut" (handed to shutdown_session, then dropped) or "leaked" *)
(* (dropped while its child runs).                                         *)

MaxSpawns == 3

PtyCallers == {"t1", "t2"}

PtyIds == {"s1", "s2"}

\* a thread between two commands
Resting(ret) == [pc |-> "idle", sid |-> "", new |-> 0, old |-> 0, ret |-> ret]

InitPty ==
    /\ pty = [map |-> [s \in PtyIds |-> <<>>],
              objs |-> <<>>,
              th |-> [t \in PtyCallers |-> Resting("none")]]
    /\ lines = <<>>
    /\ agentdeck_status = ""
    /\ now = NowBase
    /\ attention = "none"
    /\ pc = "start"
    /\ op = "none"
    /\ NoEnv
    /\ NoCall
    /\ NoPure
    /\ NoAgg
    /\ NoDash
    /\ calls = <<>>
    /\ tail_reader = <<>>

PtyFrame ==
    /\ UNCHANGED <<lines, agentdeck_status, now, attention, pc, op>>
    /\ UNCHANGED envVars
    /\ UNCHANGED callVars
    /\ UNCHANGED <<pureVars, session_summary, aggVars, dashVars, calls, tail_reader>>

\* HashMap::insert: the value it replaces is dropped on the spot
Insert(map, objs, sid, new) ==
    [map |-> [map EXCEPT ![sid] = <<new>>],
     objs |-> IF map[sid] # <<>> /\ objs[map[sid][1]] = "live"
              THEN [objs EXCEPT ![map[sid][1]] = "leaked"]
              ELSE objs]

\* attach_pty up to `let session = PtySession { .. }`: PTY opened, child spawned
AttachSpawn(t, sid) ==
    /\ pty.th[t].pc = "idle"
    /\ Len(pty.objs) < MaxSpawns
    /\ pty' = [pty EXCEPT
                 !.objs = Append(@, "live"),
                 !.th[t] = [pc |-> "spawned", sid |-> sid, new |-> Len(pty.objs) + 1,
                            old |-> 0, ret |-> "none"]]
    /\ PtyFrame

\* openpty, spawn_command, take_writer or try_clone_reader fails: Err
AttachFails(t, sid) ==
    /\ pty.th[t].pc = "idle"
    /\ pty' = [pty EXCEPT !.th[t] = Resting("err")]
    /\ PtyFrame

\* lock; remove(&session_id); no old session: insert under the same lock.
\* An old session: the lock is dropped before shutdown_session
AttachRemove(t) ==
    /\ pty.th[t].pc = "spawned"
    /\ LET sid == pty.th[t].sid IN
       IF pty.map[sid] # <<>> THEN
          pty' = [pty EXCEPT !.map[sid] = <<>>,
                             !.th[t].old = pty.map[sid][1],
                             !.th[t].pc = "shutdown_old"]
       ELSE LET after == Insert(pty.map, pty.objs, sid, pty.th[t].new) IN
          pty' = [pty EXCEPT !.map = after.map, !.objs = after.objs,
                             !.th[t] = Resting("ok")]
    /\ PtyFrame

\* shutdown_session(old), the lock not held
AttachShutdown(t) ==
    /\ pty.th[t].pc = "shutdown_old"
    /\ pty' = [pty EXCEPT !.objs[pty.th[t].old] = "shut",
                          !.th[t].pc = "relock"]
    /\ PtyFrame

\* the lock taken again; sessions.insert(session_id, session)
AttachInsert(t) ==
    /\ pty.th[t].pc = "relock"
    /\ LET after == Insert(pty.map, pty.objs, pty.th[t].sid, pty.th[t].new) IN
       pty' = [pty EXCEPT !.map = after.map, !.objs = after.objs,
                          !.th[t] = Resting("ok")]
    /\ PtyFrame

\* close_pty: lock; remove(&session_id); the lock dropped
CloseRemove(t, sid) ==
    /\ pty.th[t].pc = "idle"
    /\ IF pty.map[sid] # <<>> THEN
          pty' = [pty EXCEPT !.map[sid] = <<>>,
                             !.th[t] = [pc |-> "shutdown_closed", sid |-> sid, new |-> 0,
                                        old |-> pty.map[sid][1], ret |-> "none"]]
       ELSE pty' = [pty EXCEPT !.th[t] = Resting("ok")]
    /\ PtyFrame

\* shutdown_session(session); Ok(())
CloseShutdown(t) ==
    /\ pty.th[t].pc = "shutdown_closed"
    /\ pty' = [pty EXCEPT !.objs[pty.th[t].old] = "shut",
                          !.th[t] = Resting("ok")]
    /\ PtyFrame

NextPty ==
    \E t \in PtyCallers :
        \/ \E sid \in PtyIds : AttachSpawn(t, sid)
        \/ \E sid \in PtyIds : AttachFails(t, sid)
        \/ AttachRemove(t)
        \/ AttachShutdown(t)
        \/ AttachInsert(t)
        \/ \E sid \in PtyIds : CloseRemove(t, sid)
        \/ CloseShutdown(t)

SpecPty == InitPty /\ [][NextPty]_vars

----------------------------------------------------------------------------
(* Specification of read_tail_lines running while the external tool        *)
(* appends to the transcript.  The file is in_file.raw up to byte          *)
(* in_file.size: its last line is partly written while size is less than   *)
(* FileSize(raw).  Each system call of the reader and each write of the    *)
(* appender is one step.                                                   *)

\* the lines the tool appends
AppendedLines ==
    { [kind |-> "json", len |-> 3,
       val |-> Wrapped("assistant", "assistant", << <<TextItem>> >>, <<>>)],
      [kind |-> "json", len |-> 1,
       val |-> Wrapped("user", "user", << <<ToolResult(FALSE)>> >>, <<>>)] }

TailLimits == {2, 5, TAIL_BYTES}

\* index of the line that holds byte `at` of the file (at < size)
LineOf(raw, at) ==
    LET upto == { i \in 1..Len(raw) : Offset(raw, i) <= at } IN
    CHOOSE i \in upto : \A j \in upto : j <= i

\* read_line from byte `at` with `size` bytes in the file: the position after
\* it, at the newline that ends the line or at the end of the file
AfterReadLine(raw, at, size) ==
    LET newline == Offset(raw, LineOf(raw, at)) + raw[LineOf(raw, at)].len IN
    IF newline < size THEN newline + 1 ELSE size

ParsePiece_prefix(line, from, to) ==
    IF from = 0 /\ to > 0 /\ line.kind = "json" THEN <<line.val>> ELSE <<>>

\* serde_json::from_str on bytes from..to of a line's text: only the whole
\* text of a JSON line parses; a proper part of an object's text does not
ParsePiece(line, from, to) ==
    IF from = 0 /\ to = line.len /\ line.kind = "json" THEN <<line.val>> ELSE <<>>

\* what one iteration of `for line in reader.lines()` pushes
Pushed(raw, at, size) ==
    LET i == LineOf(raw, at)
        from == at - Offset(raw, i)
        to == IF AfterReadLine(raw, at, size) > Offset(raw, i) + raw[i].len
              THEN raw[i].len
              ELSE AfterReadLine(raw, at, size) - Offset(raw, i)
    IN ParsePiece(raw[i], from, to)

InitAppend ==
    /\ in_file \in { [id |-> "c1", readable |-> r, raw |-> raw, size |-> FileSize(raw)] :
                        r \in BOOLEAN, raw \in SeqsUpTo(RawLines, MaxRaw - 1) }
    /\ in_max_bytes \in TailLimits
    /\ tail_reader = [pc |-> "start", file_size |-> 0, seek_pos |-> 0, pos |-> 0,
                      out |-> <<>>]
    /\ lines = <<>>
    /\ agentdeck_status = ""
    /\ now = NowBase
    /\ attention = "none"
    /\ pc = "start"
    /\ op = "none"
    /\ NoEnv
    /\ NoCall
    /\ result = <<>>
    /\ lines2 = <<>>
    /\ attention2 = "none"
    /\ session_summary = <<>>
    /\ NoAgg
    /\ NoDash
    /\ calls = <<>>
    /\ pty = <<>>

AppendFrame ==
    /\ UNCHANGED <<agentdeck_status, now, attention, pc, op>>
    /\ UNCHANGED envVars
    /\ UNCHANGED callVars
    /\ UNCHANGED <<result, lines2, attention2, in_max_bytes, session_summary>>
    /\ UNCHANGED <<aggVars, dashVars, calls, pty>>

\* the external tool writes the next n bytes of the line it is appending,
\* or the first n bytes of a new line
AppenderWrites ==
    /\ in_file.readable
    /\ IF in_file.size < FileSize(in_file.raw) THEN
          \E n \in 1..(FileSize(in_file.raw) - in_file.size) :
              in_file' = [in_file EXCEPT !.size = @ + n]
       ELSE
          /\ Len(in_file.raw) < MaxRaw
          /\ \E line \in AppendedLines, n \in 1..MaxBytes :
                /\ n <= line.len + 1
                /\ in_file' = [in_file EXCEPT !.raw = Append(@, line), !.size = @ + n]
    /\ UNCHANGED <<lines, tail_reader>>
    /\ AppendFrame

\* File::open, metadata, seek
TailOpen ==
    /\ tail_reader.pc = "start"
    /\ IF ~in_file.readable THEN
          /\ tail_reader' = [tail_reader EXCEPT !.pc = "done"]
          /\ lines' = <<>>
       ELSE
          LET seek_pos == SaturatingSub(in_file.size, in_max_bytes) IN
          /\ tail_reader' = [tail_reader EXCEPT
                               !.pc = IF seek_pos > 0 THEN "discard" ELSE "read",
                               !.file_size = in_file.size,
                               !.seek_pos = seek_pos,
                               !.pos = seek_pos]
          /\ UNCHANGED lines
    /\ UNCHANGED in_file
    /\ AppendFrame

\* the read_line whose result is thrown away
TailDiscard ==
    /\ tail_reader.pc = "discard"
    /\ tail_reader' = [tail_reader EXCEPT
                         !.pc = "read",
                         !.pos = IF @ < in_file.size
                                 THEN AfterReadLine(in_file.raw, @, in_file.size) ELSE @]
    /\ UNCHANGED <<lines, in_file>>
    /\ AppendFrame

\* one iteration of the loop, or its end at the end of the file
TailReadLine ==
    /\ tail_reader.pc = "read"
    /\ IF tail_reader.pos < in_file.size THEN
          /\ tail_reader' = [tail_reader EXCEPT
                !.pos = AfterReadLine(in_file.raw, @, in_file.size),
                !.out = @ \o Pushed(in_file.raw, tail_reader.pos, in_file.size)]
          /\ UNCHANGED lines
       ELSE
          /\ tail_reader' = [tail_reader EXCEPT !.pc = "done"]
          /\ lines' = tail_reader.out
    /\ UNCHANGED in_file
    /\ AppendFrame

ReaderSteps == TailOpen \/ TailDiscard \/ TailReadLine

NextAppend == AppenderWrites \/ ReaderSteps

SpecAppend == InitAppend /\ [][NextAppend]_vars

----------------------------------------------------------------------------
(* Vocabulary of the properties, read off the transcript format            *)

\* positions of the conversational entries of the tail
ConvIdx == { i \in 1..Len(lines) : lines[i].type \in {"assistant", "user"} }

RoleAt(i) ==
    IF lines[i].message = <<>> THEN lines[i].role ELSE lines[i].message[1].role

ContentAt(i) ==
    IF lines[i].message = <<>> THEN lines[i].content ELSE lines[i].message[1].content

\* entry i carries a tool_use of the interactive allow-list
InteractiveAt(i) ==
    /\ ContentAt(i) # <<>>
    /\ \E k \in 1..Len(ContentAt(i)[1]) :
          /\ ContentAt(i)[1][k].type = "tool_use"
          /\ ContentAt(i)[1][k].name \in {"AskUserQuestion", "ExitPlanMode", "EnterPlanMode"}

MaxOf(S) == CHOOSE i \in S : \A j \in S : j <= i

\* the last conversational entry is an assistant's and asks the user
LastConvAsks ==
    /\ ConvIdx # {}
    /\ RoleAt(MaxOf(ConvIdx)) = "assistant"
    /\ InteractiveAt(MaxOf(ConvIdx))

\* positions of the entries of role assistant, of any type
AsstIdx == { i \in 1..Len(lines) : RoleAt(i) = "assistant" }

\* the last entry of the tail is more than an hour old
LastEntryOld ==
    /\ lines # <<>>
    /\ lines[Len(lines)].timestamp # <<>>
    /\ now - lines[Len(lines)].timestamp[1] > 3600

Extracted == pc = "done" /\ op = "extract_attention"

Called == pc = "done" /\ op \in {"compute_attention", "get_session_summary"}

----------------------------------------------------------------------------
(* Properties of extract_attention (specification Spec)                     *)

\* C1: with coarse status "waiting" the result is NeedsInput when some
\* conversational entry has role assistant and Idle otherwise, whatever the
\* tool-use items and timestamps.
C1_WaitingShortCircuit ==
    (Extracted /\ agentdeck_status = "waiting") =>
        attention = IF \E i \in ConvIdx : RoleAt(i) = "assistant"
                    THEN "NeedsInput" ELSE "Idle"

\* waiting, an old tail whose only assistant-role entry is typed "result": Idle
C1_Witness ==
    /\ Extracted /\ agentdeck_status = "waiting"
    /\ AsstIdx # {} /\ AsstIdx \cap ConvIdx = {}
    /\ ConvIdx # {}
    /\ LastEntryOld
    /\ attention = "Idle"

\* C2: when the last conversational entry has role assistant and carries an
\* interactive tool_use, the result is NeedsInput for every coarse status,
\* also when the last entry of the tail is more than 3600 s old.
C2_InteractiveTool == (Extracted /\ LastConvAsks) => attention = "NeedsInput"

C2_Witness ==
    /\ Extracted /\ LastConvAsks /\ LastEntryOld
    /\ agentdeck_status = "error"
    /\ attention = "NeedsInput"

\* C3 as stated: for a non-waiting coarse status, when the most recent entry
\* of role assistant carries an interactive tool_use the result is NeedsInput,
\* whether or not user entries come after it.
C3_Original ==
    (Extracted /\ agentdeck_status # "waiting" /\ AsstIdx # {}
        /\ InteractiveAt(MaxOf(AsstIdx))) => attention = "NeedsInput"

\* C3 amended: for a non-waiting coarse status, when the most recent entry of
\* role assistant is a conversational entry, no conversational entry comes
\* after it and it carries an interactive tool_use, the result is NeedsInput.
C3_LastAssistantIsLast ==
    (Extracted /\ agentdeck_status # "waiting" /\ AsstIdx # {}
        /\ MaxOf(AsstIdx) \in ConvIdx
        /\ (\A j \in ConvIdx : j <= MaxOf(AsstIdx))
        /\ InteractiveAt(MaxOf(AsstIdx))) => attention = "NeedsInput"

\* the asking assistant entry is followed by a non-conversational old entry
C3_Witness ==
    /\ Extracted /\ agentdeck_status = "running"
    /\ AsstIdx # {} /\ MaxOf(AsstIdx) \in ConvIdx
    /\ MaxOf(AsstIdx) = MaxOf(ConvIdx)
    /\ MaxOf(AsstIdx) < Len(lines)
    /\ InteractiveAt(MaxOf(AsstIdx))
    /\ LastEntryOld
    /\ attention = "NeedsInput"

\* C4 as stated: for every coarse status, a tail whose last entry is more than
\* 3600 s old classifies as Stale unless it classifies as NeedsInput.
C4_Original ==
    (Extracted /\ LastEntryOld) => attention \in {"Stale", "NeedsInput"}

\* C4 amended: for every coarse status other than "waiting" and every tail with
\* at least one conversational entry whose last entry is more than 3600 s old,
\* the result is Stale unless it is NeedsInput.
C4_StaleAfterShortCircuits ==
    (Extracted /\ LastEntryOld /\ agentdeck_status # "waiting" /\ ConvIdx # {})
        => attention \in {"Stale", "NeedsInput"}

\* the old timestamp sits on a trailing non-conversational entry
C4_Witness ==
    /\ Extracted /\ LastEntryOld /\ agentdeck_status = "error"
    /\ ConvIdx # {} /\ Len(lines) \notin ConvIdx
    /\ lines[MaxOf(ConvIdx)].timestamp = <<>>
    /\ attention = "Stale"

\* C5: non-waiting coarse status and no conversational entry in the tail:
\* Running for "running", Error for "error", Unknown for anything else.
C5_NoConversationalEntries ==
    (Extracted /\ agentdeck_status # "waiting" /\ ConvIdx = {}) =>
        attention = CASE agentdeck_status = "running" -> "Running"
                      [] agentdeck_status = "error" -> "Error"
                      [] OTHER -> "Unknown"

\* "idle" over a non-empty old tail without conversational entries: Unknown
C5_Witness ==
    /\ Extracted /\ agentdeck_status = "idle"
    /\ lines # <<>> /\ ConvIdx = {} /\ LastEntryOld
    /\ attention = "Unknown"

\* C6: non-waiting coarse status, some conversational entry, the last one not
\* asking the user and the tail not stale: Running for "running", Error for
\* "error", Idle for anything else.
C6_FinalFallback ==
    (Extracted /\ agentdeck_status # "waiting" /\ ConvIdx # {}
        /\ ~LastConvAsks /\ ~LastEntryOld) =>
        attention = CASE agentdeck_status = "running" -> "Running"
                      [] agentdeck_status = "error" -> "Error"
                      [] OTHER -> "Idle"

\* last entry exactly 3600 s old, an earlier assistant entry asked the user
C6_Witness ==
    /\ Extracted /\ agentdeck_status = "paused"
    /\ ConvIdx # {} /\ ~LastConvAsks
    /\ \E i \in ConvIdx : RoleAt(i) = "assistant" /\ InteractiveAt(i)
    /\ lines[Len(lines)].timestamp = <<now - 3600>>
    /\ attention = "Idle"

----------------------------------------------------------------------------
(* Properties of compute_attention and get_session_summary (SpecCall)       *)

PaneShowsPrompt == pane.ok /\ \E i \in 1..Len(pane.text) : pane.text[i] = "Do you want to proceed?"

PaneGiven == tmux_session # <<>> /\ tmux_session[1] # ""

\* C7: refinement turns the status into NeedsInput when it is Running, a
\* non-empty pane id is given, the capture succeeds and shows the permission
\* prompt; in every other case the status is returned unchanged; the probe
\* runs only for a Running status with a non-empty pane id.
C7_RefineOnlyUpgradesRunning ==
    Called =>
        /\ attention = IF pre = "Running" /\ PaneGiven /\ PaneShowsPrompt
                       THEN "NeedsInput" ELSE pre
        /\ (probed > 0 => (pre = "Running" /\ PaneGiven))

C7_Witness ==
    /\ Called /\ pre = "Running" /\ PaneGiven /\ PaneShowsPrompt
    /\ probed = 1
    /\ attention = "NeedsInput"

\* C8: no transcript located (or no conversation id) and coarse "waiting":
\* the final attention is Idle whatever the pane shows.
C8_NoTranscriptWaitingIsIdle ==
    (Called /\ jsonl_path = <<>> /\ agentdeck_status = "waiting")
        => attention = "Idle"

C8_Witness ==
    /\ Called /\ op = "get_session_summary"
    /\ jsonl_path = <<>> /\ agentdeck_status = "waiting"
    /\ dirs # <<>>
    /\ PaneGiven /\ PaneShowsPrompt
    /\ attention = "Idle"

\* C9 as stated: without conversation id, and with an id whose transcript is
\* not found, the status before refinement is Idle for "waiting", Running for
\* "running", Error for "error" and Unknown for anything else, "idle" included.
C9_Original ==
    (Called /\ jsonl_path = <<>>) =>
        pre = CASE agentdeck_status = "waiting" -> "Idle"
                [] agentdeck_status = "running" -> "Running"
                [] agentdeck_status = "error" -> "Error"
                [] OTHER -> "Unknown"

\* C9 amended: as stated, except that "idle" gives Idle when a conversation id
\* is given and its transcript is not found ("idle" gives Unknown only when
\* there is no conversation id).
C9_NoSignalMapping ==
    (Called /\ jsonl_path = <<>>) =>
        pre = CASE agentdeck_status = "waiting" -> "Idle"
                [] agentdeck_status = "running" -> "Running"
                [] agentdeck_status = "error" -> "Error"
                [] agentdeck_status = "idle" /\ claude_session_id # <<>> -> "Idle"
                [] OTHER -> "Unknown"

\* "idle" with an id whose transcript is in none of the root's directories
C9_Witness ==
    /\ Called /\ op = "get_session_summary"
    /\ claude_session_id # <<>> /\ jsonl_path = <<>>
    /\ dirs # <<>> /\ rootReadable
    /\ agentdeck_status = "idle"
    /\ pre = "Idle" /\ attention = "Idle"

\* C10: every call ends with a concrete AttentionStatus; none aborts.
C10_AlwaysReturnsStatus ==
    pc # "start" => (pc = "done" /\ attention \in AttentionStatus)

----------------------------------------------------------------------------
(* Properties of get_attention_counts (specification SpecAgg)               *)

Counting == op = "get_attention_counts" /\ pc \in {"loop", "done"}

Counted == op = "get_attention_counts" /\ pc = "done"

\* the candidates consumed so far
Seen == 1..Len(classified)

Actionable(i) == classified[i] \in {"NeedsInput", "Error"}

\* the consumed candidates of group g that classified as `att`
SeenAs(g, att) == { i \in Seen : candidates[i].group_path = g /\ classified[i] = att }

IsWaitingOrError(row) == row.status = "waiting" \/ row.status = "error"

\* C11: when the scan has returned, a group is reported "waiting" iff one of
\* its candidates classified NeedsInput, "error" iff one classified Error and
\* none NeedsInput, and is absent iff none classified either; this fixes the
\* map by the set of classified candidates alone, whatever their order.
C11_WorstStatusPerGroup ==
    Counted =>
        /\ Len(classified) = Len(candidates)
        /\ DOMAIN groups \subseteq GroupPaths
        /\ \A g \in GroupPaths :
              /\ (g \in DOMAIN groups /\ groups[g] = "waiting")
                    <=> SeenAs(g, "NeedsInput") # {}
              /\ (g \in DOMAIN groups /\ groups[g] = "error")
                    <=> (SeenAs(g, "Error") # {} /\ SeenAs(g, "NeedsInput") = {})
              /\ (g \notin DOMAIN groups)
                    <=> (SeenAs(g, "Error") = {} /\ SeenAs(g, "NeedsInput") = {})

\* an Error candidate first, a NeedsInput candidate of the same group second
C11_Witness ==
    /\ Counted
    /\ classified = <<"Error", "NeedsInput">>
    /\ candidates[1].group_path = candidates[2].group_path
    /\ groups[candidates[1].group_path] = "waiting"

\* C12: in every step of the scan a recorded group stays recorded, a group
\* recorded "waiting" stays "waiting", the only change of a recorded status
\* is "error" to "waiting", and total does not decrease.
C12_MonotoneScan ==
    [][ /\ \A g \in DOMAIN groups :
              /\ g \in DOMAIN groups'
              /\ (groups[g] = "waiting" => groups'[g] = "waiting")
              /\ (groups'[g] # groups[g] => (groups[g] = "error" /\ groups'[g] = "waiting"))
        /\ total' >= total ]_vars

\* a NeedsInput candidate first, an Error candidate of the same group second
C12_Witness ==
    /\ Counting
    /\ classified = <<"NeedsInput", "Error">>
    /\ candidates[1].group_path = candidates[2].group_path
    /\ groups[candidates[1].group_path] = "waiting"
    /\ total = 2

\* C13: the candidates are the rows of status "waiting" or "error"; no pane
\* probe runs; total is the number of consumed candidates classified
\* NeedsInput or Error, the map's keys are their groups (other classifications
\* add nothing), and total is at least the number of keys.
C13_TotalCountsActionable ==
    Counting =>
        /\ candidates = SelectSeq(sessions, IsWaitingOrError)
        /\ (pc = "done" => Len(classified) = Len(candidates))
        /\ probed = 0
        /\ total = Cardinality({ i \in Seen : Actionable(i) })
        /\ DOMAIN groups = { candidates[i].group_path : i \in { j \in Seen : Actionable(j) } }
        /\ total >= Cardinality(DOMAIN groups)

\* a Stale and an Error candidate: only the second counts
C13_Witness ==
    /\ Counted
    /\ classified = <<"Stale", "Error">>
    /\ total = 1
    /\ DOMAIN groups = {candidates[2].group_path}

----------------------------------------------------------------------------
(* Properties of two classifications side by side (specification SpecPair)  *)

SameButFlag(a, b) ==
    /\ [a EXCEPT !.is_error = FALSE] = [b EXCEPT !.is_error = FALSE]
    /\ (a.type # "tool_result" => a = b)

SameContent(c, d) ==
    /\ Len(c) = Len(d)
    /\ (c # <<>> =>
          /\ Len(c[1]) = Len(d[1])
          /\ \A k \in 1..Len(c[1]) : SameButFlag(c[1][k], d[1][k]))

\* lines and lines2 differ at most in is_error flags of tool_result items
DifferInFlagsOnly ==
    /\ Len(lines) = Len(lines2)
    /\ \A i \in 1..Len(lines) :
          /\ lines[i].type = lines2[i].type
          /\ lines[i].timestamp = lines2[i].timestamp
          /\ lines[i].role = lines2[i].role
          /\ SameContent(lines[i].content, lines2[i].content)
          /\ Len(lines[i].message) = Len(lines2[i].message)
          /\ (lines[i].message # <<>> =>
                /\ lines[i].message[1].role = lines2[i].message[1].role
                /\ SameContent(lines[i].message[1].content, lines2[i].message[1].content))

\* C14: extract_attention returns Error only for coarse status "error", and
\* two tails that differ only in is_error flags of tool_result items classify
\* identically for every coarse status.
C14_IsErrorIgnored ==
    (pc = "done" /\ op = "extract_pair" /\ DifferInFlagsOnly) =>
        /\ attention = attention2
        /\ (attention = "Error" => agentdeck_status = "error")

\* the last conversational entry is a user's failed tool_result in one tail
\* and a successful one in the other; both classify Idle
C14_Witness ==
    /\ pc = "done" /\ op = "extract_pair" /\ DifferInFlagsOnly
    /\ lines # lines2
    /\ ConvIdx # {} /\ MaxOf(ConvIdx) = Len(lines)
    /\ ContentAt(Len(lines)) # <<>>
    /\ \E k \in 1..Len(ContentAt(Len(lines))[1]) :
          /\ ContentAt(Len(lines))[1][k].type = "tool_result"
          /\ ContentAt(Len(lines))[1][k].is_error
    /\ agentdeck_status = "idle"
    /\ attention = "Idle" /\ attention2 = "Idle"

----------------------------------------------------------------------------
(* Properties of the four extracts (specification SpecExtract)              *)

MinOf(S) == CHOOSE i \in S : \A j \in S : i <= j

\* t without its leading and trailing whitespace
Stripped(t) ==
    LET solid == { i \in 1..Len(t) : t[i] \notin {" ", "\t", "\n"} } IN
    IF solid = {} THEN <<>> ELSE SubSeq(t, MinOf(solid), MaxOf(solid))

\* the first n characters of t
Prefix(t, n) == [i \in 1..(IF Len(t) < n THEN Len(t) ELSE n) |-> t[i]]

\* positions of the text items of entry i whose stripped text is not empty
SolidTexts(i) ==
    IF ContentAt(i) = <<>> THEN {}
    ELSE { k \in 1..Len(ContentAt(i)[1]) :
             /\ ContentAt(i)[1][k].type = "text"
             /\ Stripped(ContentAt(i)[1][k].text) # <<>> }

\* entries of the given role that have such a text item
WithText(role) == { i \in 1..Len(lines) : RoleAt(i) = role /\ SolidTexts(i) # {} }

\* the preview of entry i: its first such text, stripped, cut to 200 characters
Preview(i) == Prefix(Stripped(ContentAt(i)[1][MinOf(SolidTexts(i))].text), 200)

ToolUsesAt(i) ==
    IF ContentAt(i) = <<>> THEN {}
    ELSE { k \in 1..Len(ContentAt(i)[1]) : ContentAt(i)[1][k].type = "tool_use" }

\* assistant-role entries with a tool_use item
WithTool == { i \in 1..Len(lines) : RoleAt(i) = "assistant" /\ ToolUsesAt(i) # {} }

SummaryIdx == { i \in 1..Len(lines) : lines[i].type = "summary" }

Did(name) == pc = "done" /\ op = name

\* C15 as stated: the result is the summary text of the most recent entry of
\* type "summary" if that entry has one, and None otherwise (no summary entry,
\* or the most recent one without summary text).
C15_Original ==
    Did("extract_summary") =>
        result = IF SummaryIdx = {} THEN <<>> ELSE lines[MaxOf(SummaryIdx)].summary

\* C15 amended: the result is the summary text of the most recent entry of
\* type "summary" that has a summary text, and None when no entry of type
\* "summary" has one; entries of other types are ignored.
C15_LatestSummaryWithText ==
    Did("extract_summary") =>
        LET texted == { i \in SummaryIdx : lines[i].summary # <<>> } IN
        result = IF texted = {} THEN <<>> ELSE lines[MaxOf(texted)].summary

\* a summary entry with text, then a summary entry without: the first is returned
C15_Witness ==
    /\ Did("extract_summary")
    /\ Len(lines) = 2
    /\ SummaryIdx = {1, 2}
    /\ lines[1].summary # <<>> /\ lines[2].summary = <<>>
    /\ result = lines[1].summary

\* C16: extract_last_text returns the preview of the most recent assistant-role
\* entry that has a non-empty text item, and None when there is none; a result
\* has between 1 and 200 characters, exactly 200 when the stripped text is longer.
C16_LastText ==
    Did("extract_last_text") =>
        /\ result = IF WithText("assistant") = {} THEN <<>>
                    ELSE << Preview(MaxOf(WithText("assistant"))) >>
        /\ (result # <<>> => (Len(result[1]) >= 1 /\ Len(result[1]) <= 200))
        /\ \A i \in WithText("assistant") :
              (i = MaxOf(WithText("assistant"))
                 /\ Len(Stripped(ContentAt(i)[1][MinOf(SolidTexts(i))].text)) > 200)
                    => Len(result[1]) = 200

\* a padded text of more than 200 characters, followed by a user entry with text
C16_Witness ==
    /\ Did("extract_last_text")
    /\ Len(lines) = 2
    /\ WithText("assistant") = {1}
    /\ WithText("user") = {2}
    /\ Len(ContentAt(1)[1][1].text) > Len(Stripped(ContentAt(1)[1][1].text))
    /\ Len(Stripped(ContentAt(1)[1][1].text)) > 200
    /\ Len(result[1]) = 200

\* C17: extract_last_tool returns the name of a tool_use item of the most
\* recent assistant-role entry that has a tool_use item, and None when no
\* assistant-role entry has one; later entries without tool_use do not hide it.
C17_LastTool ==
    Did("extract_last_tool") =>
        IF WithTool = {} THEN result = <<>>
        ELSE \E k \in ToolUsesAt(MaxOf(WithTool)) :
                LET name == ContentAt(MaxOf(WithTool))[1][k].name IN
                result = IF name = "" THEN <<>> ELSE <<name>>

\* the tool-using assistant entry is followed by a user entry with a tool_use
C17_Witness ==
    /\ Did("extract_last_tool")
    /\ Len(lines) = 2
    /\ WithTool = {1}
    /\ RoleAt(2) = "user" /\ ToolUsesAt(2) # {}
    /\ result = <<"Read">>

\* C18: extract_initial_prompt returns the preview of the earliest user-role
\* entry of the window that has a non-empty text item, and None when there is
\* none; assistant entries and user entries without such an item are skipped.
C18_InitialPrompt ==
    Did("extract_initial_prompt") =>
        result = IF WithText("user") = {} THEN <<>>
                 ELSE << Preview(MinOf(WithText("user"))) >>

\* a user entry with only an empty text, then one with a padded text
C18_Witness ==
    /\ Did("extract_initial_prompt")
    /\ Len(lines) = 2
    /\ RoleAt(1) = "user" /\ SolidTexts(1) = {} /\ ToolUsesAt(1) = {}
    /\ WithText("user") = {2}
    /\ result = << <<"o", "k">> >>

----------------------------------------------------------------------------
(* Properties of the two readers (specification SpecRead)                  *)

RawAt(i) == in_file.raw[i]

RawCount == Len(in_file.raw)

RECURSIVE StartOf(_)
\* the byte at which raw line i starts
StartOf(i) == IF i = 1 THEN 0 ELSE StartOf(i - 1) + RawAt(i - 1).len + 1

\* the byte holding the newline that ends raw line i
NewlineOf(i) == StartOf(i) + RawAt(i).len

SizeOfFile == IF RawCount = 0 THEN 0 ELSE NewlineOf(RawCount) + 1

\* p = max(0, size - max_bytes)
SeekPoint == IF SizeOfFile > in_max_bytes THEN SizeOfFile - in_max_bytes ELSE 0

\* the raw lines that start after the first newline at or after p
AfterSeek ==
    IF SeekPoint = 0 THEN 1..RawCount
    ELSE { i \in 1..RawCount :
             \E j \in 1..RawCount : NewlineOf(j) >= SeekPoint /\ NewlineOf(j) < StartOf(i) }

\* the raw lines read before the running count exceeds max_bytes
BeforeLimit == { i \in 1..RawCount : NewlineOf(i) + 1 <= in_max_bytes }

\* `lines` holds exactly the values of the JSON lines among S, in file order
HoldsValuesOf(S) ==
    LET good == { i \in S : RawAt(i).kind = "json" } IN
    /\ Len(lines) = Cardinality(good)
    /\ \A i \in good : lines[Cardinality({ j \in good : j <= i })] = RawAt(i).val

\* C19: read_tail_lines seeks to p = max(0, size - max_bytes), drops everything
\* up to and including the first newline at or after p when p > 0 and nothing
\* when p = 0, and returns in file order exactly the values of the remaining
\* lines that parse as JSON; a file that cannot be opened yields nothing.
C19_TailRead ==
    Did("read_tail_lines") =>
        IF in_file.readable THEN HoldsValuesOf(AfterSeek) ELSE lines = <<>>

\* the seek lands exactly on the start of the second line, a JSON line: it is
\* dropped, and the JSON line after it is returned
C19_Witness ==
    /\ Did("read_tail_lines")
    /\ in_file.readable
    /\ RawCount = 3
    /\ SeekPoint = StartOf(2)
    /\ RawAt(2).kind = "json" /\ RawAt(3).kind = "json"
    /\ lines = << RawAt(3).val >>

\* C20: read_head_lines adds each line's length plus one to a running count and
\* stops at the first line that makes it exceed max_bytes; it returns in file
\* order the values of the JSON lines read before that point, and nothing when
\* the file cannot be opened.
C20_HeadRead ==
    Did("read_head_lines") =>
        IF in_file.readable THEN HoldsValuesOf(BeforeLimit) ELSE lines = <<>>

\* the first line brings the count to exactly max_bytes and is returned, the
\* JSON line after it crosses the limit and is not
C20_Witness ==
    /\ Did("read_head_lines")
    /\ in_file.readable
    /\ RawCount >= 2
    /\ NewlineOf(1) + 1 = in_max_bytes
    /\ RawAt(1).kind = "json" /\ RawAt(2).kind = "json"
    /\ lines = << RawAt(1).val >>

----------------------------------------------------------------------------
(* Properties of the transcript lookup (specification SpecLocate)          *)

\* the project path with every '/' replaced by '-'
EncodedName == [i \in 1..Len(project_path) |->
                  IF project_path[i] = "/" THEN "-" ELSE project_path[i]]

\* <root>/<name>/<id>.jsonl exists, id being the conversation id asked for
Holds(name) ==
    \E i \in 1..Len(dirs) :
        /\ dirs[i].name = name
        /\ dirs[i].file # <<>>
        /\ dirs[i].file[1].id = claude_session_id[1]

\* names of the root's directories that start with the encoded name and hold the file
PrefixHolders ==
    { dirs[i].name : i \in { k \in 1..Len(dirs) :
        /\ Len(dirs[k].name) >= Len(EncodedName)
        /\ SubSeq(dirs[k].name, 1, Len(EncodedName)) = EncodedName
        /\ Holds(dirs[k].name) } }

Located == pc = "done" /\ op = "find_jsonl_path"

\* the parts of C21 that do not concern None
LocatesHolder ==
    /\ (Holds(EncodedName) =>
          jsonl_path = << [dir |-> EncodedName, id |-> claude_session_id[1]] >>)
    /\ (jsonl_path # <<>> =>
          /\ jsonl_path[1].dir \in PrefixHolders
          /\ jsonl_path[1].id = claude_session_id[1])

C22_SamePathWhateverOrder ==
    [][(/\ Located /\ Located'
        /\ project_path' = project_path
        /\ claude_session_id' = claude_session_id)
          => jsonl_path' = jsonl_path]_vars

----------------------------------------------------------------------------
(* Properties of the dashboard calls (specification SpecDash)              *)

\* C23: no compute_attention, get_session_summary, get_attention_counts or
\* get_attention_sessions call changes a row of the session store (status and
\* last_accessed included) or a transcript file.
C23_ReadOnly == [][sessions' = sessions /\ dirs' = dirs]_vars

\* get_attention_sessions returned a session whose last_accessed it repaired
\* from the transcript's modification time, while the stored row keeps the
\* bogus value
C23_Witness ==
    /\ pc = "done" /\ op = "get_attention_sessions"
    /\ attention_sessions # <<>>
    /\ \E k \in 1..Len(attention_sessions[1].list) :
          LET s == attention_sessions[1].list[k] IN
          /\ sessions[s.id].last_accessed = 0
          /\ s.last_accessed > 0

----------------------------------------------------------------------------
(* Properties of calls running side by side (specification SpecConc)       *)

\* what call c returns when nothing else runs
Alone(c) ==
    LET row == calls[c].row IN
    IF calls[c].kind = "get_attention_counts"
    THEN CountFrom(Select(sessions), [total |-> 0, groups |-> EmptyMap])
    ELSE IF calls[c].kind = "compute_attention" THEN Classify(row)
    ELSE [attention |-> Classify(row),
          extracts |-> Extracts(row.project_path, row.claude_session_id[1])[1]]

\* the counts of the candidates call c has consumed so far, and of no others
OwnCounts(c) ==
    CountFrom(SubSeq(calls[c].candidates, 1, calls[c].idx),
              [total |-> 0, groups |-> EmptyMap])

\* C24: with calls interleaved over an unchanging disk and store, each call
\* that returns returns what it returns when run alone, and the total and
\* groups of a get_attention_counts call hold its own contributions only.
C24_NoInterference ==
    \A c \in Callers :
        /\ (calls[c].pc = "done" => calls[c].result = <<Alone(c)>>)
        /\ (calls[c].pc = "loop" =>
              /\ calls[c].total = OwnCounts(c).total
              /\ calls[c].groups = OwnCounts(c).groups)

\* one get_attention_counts call has counted its first candidate and is still
\* in its loop while another has returned a total of two
C24_Witness ==
    \E c, d \in Callers :
        /\ c # d
        /\ calls[c].kind = "get_attention_counts" /\ calls[c].pc = "loop"
        /\ calls[c].idx = 1 /\ calls[c].total = 1
        /\ calls[d].kind = "get_attention_counts" /\ calls[d].pc = "done"
        /\ calls[d].result[1].total = 2

----------------------------------------------------------------------------
(* Further properties of extract_attention (specification Spec)            *)

\* the last conversational entry is an assistant's, carries tool_use items and
\* none of them is of the interactive allow-list
LastConvUsesPlainTools ==
    /\ ConvIdx # {}
    /\ RoleAt(MaxOf(ConvIdx)) = "assistant"
    /\ ToolUsesAt(MaxOf(ConvIdx)) # {}
    /\ ~InteractiveAt(MaxOf(ConvIdx))

\* C25: for a non-waiting coarse status the result is NeedsInput only if the
\* last conversational entry is an assistant's with an interactive tool_use; a
\* last assistant entry with only non-interactive tool_use items, unanswered,
\* gives Stale or the coarse fallback.
C25_NeedsInputOnlyWhenAsked ==
    (Extracted /\ agentdeck_status # "waiting") =>
        /\ (attention = "NeedsInput" => LastConvAsks)
        /\ (LastConvUsesPlainTools => attention \in {"Stale", "Running", "Error", "Idle"})

\* an assistant asked the user earlier; the last entry is an assistant's
\* unanswered Bash tool_use
C25_Witness ==
    /\ Extracted /\ agentdeck_status = "running"
    /\ Len(lines) = 2
    /\ RoleAt(1) = "assistant" /\ InteractiveAt(1)
    /\ LastConvUsesPlainTools /\ MaxOf(ConvIdx) = 2
    /\ attention = "Running"

\* C26: where staleness is evaluated (coarse status not "waiting", some
\* conversational entry, the last one not asking the user) the result is Stale
\* iff the last entry of the tail, of any type, has a timestamp more than 3600 s
\* before now; otherwise it is the Running, Error or Idle fallback.
C26_StaleIffLastEntryOld ==
    (Extracted /\ agentdeck_status # "waiting" /\ ConvIdx # {} /\ ~LastConvAsks) =>
        /\ (attention = "Stale" <=> LastEntryOld)
        /\ attention \in {"Stale", "Running", "Error", "Idle"}

\* the first entry is more than 3600 s old, the last has no timestamp: not stale
C26_Witness ==
    /\ Extracted /\ agentdeck_status = "error"
    /\ Len(lines) = 2
    /\ ConvIdx = {1} /\ ~LastConvAsks
    /\ lines[1].timestamp # <<>> /\ now - lines[1].timestamp[1] > 3600
    /\ lines[2].timestamp = <<>>
    /\ attention = "Error"

----------------------------------------------------------------------------
(* A further property of compute_attention (specification SpecCall)        *)

\* C28: for coarse status "waiting" or "error" compute_attention never has
\* Running before refinement, with or without conversation id or transcript;
\* the pane is not probed and the result is the unrefined status, whether or
\* not a pane identifier is given and whatever the pane shows.
C28_BulkScanNeedsNoProbe ==
    (pc = "done" /\ op = "compute_attention"
        /\ agentdeck_status \in {"waiting", "error"}) =>
        /\ pre # "Running"
        /\ attention = pre
        /\ probed = 0

\* coarse "error" over a located transcript, the pane showing the prompt
C28_Witness ==
    /\ pc = "done" /\ op = "compute_attention"
    /\ agentdeck_status = "error"
    /\ jsonl_path # <<>> /\ lines # <<>>
    /\ PaneGiven /\ PaneShowsPrompt
    /\ pre = "Error" /\ attention = "Error"

----------------------------------------------------------------------------
(* A property of the PTY manager (specification SpecPty)                   *)

\* C29: under every interleaving of attach_pty and close_pty calls, no
\* PtySession is dropped while its child runs: each one that leaves the map
\* goes through shutdown_session, and no insert replaces a session still in
\* the map.
C29_NeverDroppedAlive ==
    \A o \in 1..Len(pty.objs) : pty.objs[o] # "leaked"

----------------------------------------------------------------------------
(* Agreement of the two dashboard queries (specification SpecDash)         *)

Listed == attention_sessions[1].list

ListedIds == { Listed[k].id : k \in 1..Len(Listed) }

ListedGroups == { Listed[k].group_path : k \in 1..Len(Listed) }

\* the two results agree: as many sessions as the total, the same groups
QueriesAgree ==
    /\ Len(Listed) = attention_counts[1].counts.total
    /\ ListedGroups = DOMAIN attention_counts[1].counts.groups

\* the stored rows with coarse status waiting or error that classify, at this
\* moment, as NeedsInput or Error
ActionableNow ==
    { i \in 1..Len(sessions) :
        /\ sessions[i].status \in {"waiting", "error"}
        /\ Classify(sessions[i]) \in {"NeedsInput", "Error"} }

\* get_attention_sessions has just returned exactly the actionable candidates
ListsActionable ==
    (pc = "done" /\ op = "get_attention_sessions") =>
        /\ ListedIds = ActionableNow
        /\ Len(Listed) = Cardinality(ActionableNow)

\* C30 as stated: over the same store and transcript files, whenever both
\* queries have returned, get_attention_sessions lists exactly the actionable
\* candidates, their number is get_attention_counts' total and their group
\* paths are the keys of its groups map.
C30_Original ==
    /\ ListsActionable
    /\ (attention_sessions # <<>> /\ attention_counts # <<>>) => QueriesAgree

\* C30 amended: get_attention_sessions lists exactly the candidates that
\* classify as NeedsInput or Error at the time of the call; its result agrees
\* with that of a get_attention_counts call over the same store and files that
\* read the same clock value.
C30_QueriesAgreeAtOneInstant ==
    /\ ListsActionable
    /\ (attention_sessions # <<>> /\ attention_counts # <<>>
          /\ attention_sessions[1].at = attention_counts[1].at) => QueriesAgree

\* both queries ran at the same instant over two candidates of one group,
\* both actionable
C30_Witness ==
    /\ pc = "done" /\ op = "get_attention_sessions"
    /\ attention_counts # <<>>
    /\ attention_sessions[1].at = attention_counts[1].at
    /\ Len(sessions) = 2
    /\ Len(Listed) = 2
    /\ attention_counts[1].counts.total = 2
    /\ Cardinality(ListedGroups) = 1

----------------------------------------------------------------------------
(* A property of a read during an append (specification SpecAppend)        *)

\* the byte after the text of line i of the file
TextEnd(i) == NewlineOf(i)

\* the lines whose text is in the file to its last byte
WrittenOut == { i \in 1..Len(in_file.raw) : TextEnd(i) <= in_file.size }

\* the values of the JSON lines among them, in file order
WrittenValues ==
    LET good == { i \in WrittenOut : in_file.raw[i].kind = "json" } IN
    [k \in 1..Cardinality(good) |->
        in_file.raw[CHOOSE i \in good : Cardinality({ j \in good : j <= i }) = k].val]

RECURSIVE IsSubsequence(_, _)
\* a is b with some elements left out
IsSubsequence(a, b) ==
    IF a = <<>> THEN TRUE
    ELSE IF b = <<>> THEN FALSE
    ELSE IF Head(a) = Head(b) THEN IsSubsequence(Tail(a), Tail(b))
    ELSE IsSubsequence(a, Tail(b))

====
